---------------------------- MODULE Spec2Model ----------------------------
(***************************************************************************)
(* Verification model of fdbserver/TagPartitionedLogSystem.actor.cpp:      *)
(* the tag-partitioned log system (push, pop, peek, epoch-end recovery).   *)
(*                                                                         *)
(* One module, several specifications over the same variables:             *)
(*   SpecPush      TagPartitionedLogSystem::push                           *)
(*   SpecPop       TagPartitionedLogSystem::pop / popFromLog               *)
(*   SpecPeek      TagPartitionedLogSystem::peek / peekSingle              *)
(*   SpecRecovery  TagPartitionedLogSystem::epochEnd                       *)
(* An Optional<T> of the source is a set with at most one element.         *)
(* Arrays are 1-based sequences; array index i of the source is i+1 here.  *)
(***************************************************************************)
EXTENDS Integers, Sequences, FiniteSets, TLC

\* ------------------------------------------------------------- bounds
\* Largest number of TLogs in the pushing epoch.
MaxPushLogs == 3
\* Number of versions the master pushes.
MaxPushes == 1
\* Largest number of TLogs of the log system that is popped.
MaxPopLogs == 2
\* Largest version handed to pop(); 0 is the no-op pop.
MaxPopVersion == 2
\* Number of pop() calls.
MaxPopCalls == 2
\* Versions of the peek model are the multiples of 500 up to 500 * MaxPeekVersion.
MaxPeekVersion == 3
\* Largest number of old epochs of the log system that is peeked.
MaxOldEpochs == 2
\* Largest number of TLogs of the epoch that is recovered.
MaxRecoveryLogs == 3
\* Largest number of log systems one recovery sets into outLogSystem.
MaxPublications == 3
\* The number of TLogs of the epoch whose restarts are followed.
MaxRestartLogs == 4
\* Largest number of TLogs of the epoch whose wake-ups of the loop are followed.
MaxWakeUpLogs == 2
MaxOnErrorLogs == 2
MaxRejoinLogs == 2
MaxRejoinRequests == 3
MaxEpochLogs == 2
MaxGenerations == 2
\* Largest number of TLogs whose lockTLog and monitorLog actors are followed.
MaxLockLogs == 1
\* Largest number of lock requests one lockTLog actor sends.
MaxLockRequests == 3

VARIABLES
    \* --- fields of TagPartitionedLogSystem
    logServers,             \* handles of the current epoch: <<[present |-> BOOLEAN]>>
    tLogWriteAntiQuorum,
    tLogReplicationFactor,
    epochEndVersion,        \* Optional<Version>
    oldLogData,             \* <<[epochEnd, nLogs, tLogReplicationFactor]>>, most recent first
    \* --- push
    commitReply,            \* version -> location -> outcome of reportTLogCommitErrors
    commitOutcome,          \* version -> location -> how the commit RPC itself ended
    pushFuture,             \* version -> state of the future push() returned
    actorsResult,           \* state of actors.getResult()
    \* --- pop
    outstandingPops,        \* std::map (log, tag) -> Version; its domain is the keys present
    popTasks,               \* (log, tag) -> the running popFromLog actors: <<[pc, last, to, id]>>
    popRpcs,                \* (log, tag) -> the TLogPopRequests sent to the log, in order: <<[upTo, task]>>
    popSpawned,             \* (log, tag) -> number of popFromLog actors started so far
    popCalls,               \* number of pop() calls made
    popArrived,             \* (log, tag) -> the versions pop() was called with while the key's actor is in its first delay, in order
    popExit,                \* (log, tag) -> how the last popFromLog actor of the key ended
    \* --- peek
    peekCursor,             \* Optional: the cursor the last peek()/peekSingle() returned, with its arguments
    \* --- epochEnd (logServers are its handles of the previous epoch's TLogs)
    prevState,              \* the DBCoreState recovered from
    tLogReply,              \* slot -> Optional<TLogLockResult>: the future lockTLog() returned
    logFailed,              \* slot -> the AsyncVar<bool> monitorLog() feeds
    last_end,               \* Optional<Version>
    outLogSystem,           \* Optional: the log system last set into outLogSystem
    resumed,                \* the last event fired one of the futures the loop waits for, and the loop ran
    published,              \* the epochEndVersion of every log system set into outLogSystem, in order
    epochEndPc,             \* where epochEnd is: "start", "changes" (line 750) or "never" (line 539)
    rejoins,                \* the future of trackRejoins: "invalid", "running" or "done"
    \* --- onError
    onErrorFuture,          \* the future onError() returned: "uncalled", "never", "pending" or an error
    onErrorFailed,          \* the slots whose waitFailureClient is in `failed`
    failureFired,           \* the slots whose waitFailureClient has fired
    \* --- trackRejoins
    rejoinRequests,         \* the TLogRejoinRequests consumed, in order: <<[id, endpoint, replies, setUnconditional]>>
    lastReply,              \* std::map UID -> the request whose reply promise is kept
    \* --- newEpoch and the core state
    newEpochPc,             \* where newEpoch is: "idle", "waiting" (line 811), "returned" or the error thrown
    recruitment,            \* the arguments of the newEpoch call: workers and configuration
    initializationReplies,  \* worker -> "pending", "master_recovery_failed" or the interface it returned
    logSystem,              \* Optional: the log system newEpoch returned
    recoveryFinished,       \* slot -> "pending", "ok" or "master_recovery_failed": the futures under recoveryComplete
    coreState,              \* Optional: what the last toCoreState() call gave, a DBCoreState or an error
    coreStateFuture,        \* the future onCoreStateChanged() returned last
    persisted,              \* Optional: the DBCoreState last handed to coreStateWritten()
    writtenWithoutOld,      \* coreStateWritten() has been called with a state without oldTLogData
    generation,             \* number of recoveries started
    \* --- lockTLog and monitorLog
    lockRequest,            \* slot -> Optional: the lock request lockTLog waits on, [to, state]
    lockSent,               \* slot -> the endpoints lockTLog has sent a lock request to, in order
    waitFailure,            \* slot -> the endpoint the waitFailureTracker of monitorLog watches, 0 for none
    endpointFailed          \* the endpoints <<slot, endpoint>> the failure monitor holds failed

sysVars == <<logServers, tLogWriteAntiQuorum, tLogReplicationFactor, epochEndVersion, oldLogData>>
pushVars == <<commitReply, commitOutcome, pushFuture, actorsResult>>
popVars == <<outstandingPops, popTasks, popRpcs, popSpawned, popCalls, popArrived, popExit>>
recVars == <<prevState, tLogReply, logFailed, last_end, outLogSystem, resumed, published,
             epochEndPc, rejoins>>
onErrorVars == <<onErrorFuture, onErrorFailed, failureFired>>
rejoinVars == <<rejoinRequests, lastReply>>
epochVars == <<newEpochPc, recruitment, initializationReplies, logSystem, recoveryFinished,
               coreState, coreStateFuture, persisted, writtenWithoutOld, generation>>
lockVars == <<lockRequest, lockSent, waitFailure, endpointFailed>>
auxVars == <<onErrorVars, rejoinVars, epochVars, lockVars>>
vars == <<sysVars, pushVars, popVars, peekCursor, recVars, auxVars>>

\* ------------------------------------------------------------- helpers
Opt(S) == {{}} \cup {{x} : x \in S}
Get(o) == CHOOSE x \in o : TRUE
Range(s) == {s[i] : i \in DOMAIN s}
Max2(a, b) == IF a < b THEN b ELSE a
Min2(a, b) == IF a < b THEN a ELSE b

\* Values of the variables of an operation a specification does not run.
PushIdle ==
    /\ commitReply = <<>>
    /\ commitOutcome = <<>>
    /\ pushFuture = <<>>
    /\ actorsResult = "pending"
OnErrorIdle == onErrorFuture = "uncalled" /\ onErrorFailed = {} /\ failureFired = {}
RejoinIdle == rejoinRequests = <<>> /\ lastReply = <<>>
EpochIdle ==
    /\ newEpochPc = "idle"
    /\ recruitment = <<>>
    /\ initializationReplies = <<>>
    /\ logSystem = {}
    /\ recoveryFinished = <<>>
    /\ coreState = {}
    /\ coreStateFuture = "uncalled"
    /\ persisted = {}
    /\ writtenWithoutOld = FALSE
    /\ generation = 0
LockIdle == lockRequest = <<>> /\ lockSent = <<>> /\ waitFailure = <<>> /\ endpointFailed = {}
AuxIdle == OnErrorIdle /\ RejoinIdle /\ EpochIdle /\ LockIdle
PopIdle ==
    /\ outstandingPops = <<>>
    /\ popTasks = <<>>
    /\ popRpcs = <<>>
    /\ popSpawned = <<>>
    /\ popCalls = 0
    /\ popArrived = <<>>
    /\ popExit = <<>>
RecoveryIdle ==
    /\ prevState = <<>>
    /\ tLogReply = <<>>
    /\ logFailed = <<>>
    /\ last_end = {}
    /\ outLogSystem = {}
    /\ resumed = FALSE
    /\ published = <<>>
    /\ epochEndPc = "start"
    /\ rejoins = "invalid"

\* =====================================================================
\* push
\* =====================================================================

\* reportTLogCommitErrors: what the wrapped commit future ends with, given how
\* the commit RPC ended.
reportTLogCommitErrorsAllAsFailure(outcome) ==
    CASE outcome = "ok" -> "ok"
      [] OTHER -> "master_tlog_failed"
reportTLogCommitErrors(outcome) ==
    CASE outcome = "ok" -> "ok"
      [] outcome = "broken_promise" -> "master_tlog_failed"
      [] OTHER -> outcome

\* quorum(results, n) of flow: ready once n of the futures are ready without
\* error, failed once more than Len(results) - n of them have failed.
quorum(results, n) ==
    LET ok == Cardinality({i \in DOMAIN results : results[i] = "ok"})
        bad == Cardinality({i \in DOMAIN results : results[i] \notin {"ok", "pending"}})
    IN  IF ok >= n THEN "ready"
        ELSE IF bad > Len(results) - n THEN "error"
        ELSE "pending"

\* The count push() hands to quorum(): tLogCommitResults.size() - tLogWriteAntiQuorum.
PushQuorumCountNoAntiQuorumSlack(size, antiQuorum) == size - antiQuorum - 1
PushQuorumCount(size, antiQuorum) == size - antiQuorum

\* A future keeps its first result.
Settle(old, new) == IF old = "pending" THEN new ELSE old

\* ActorCollection(false).getResult(): fails with the first error of an added actor.
\* An actor of the collection is cancelled only by the collection going away.
ActorsAdd(result, outcome) ==
    IF result = "pending" /\ outcome \notin {"ok", "pending", "actor_cancelled"}
    THEN outcome ELSE result

\* push(): `actors.add( commitSuccess )`, the commit stays in `actors` after push() has
\* returned, whatever becomes of the quorum future.
PushCommitNotAdded(result, outcome) == result
PushCommitAdded(result, outcome) == ActorsAdd(result, outcome)

\* onError()'s `tagError(quorum(failed, 1), master_tlog_failed()) || actors.getResult()`:
\* the first of the two to end decides; neither ends without an error.
OnErrorResultActorsOnly(future, anyFailed, actors) ==
    IF future # "pending" THEN future ELSE actors
OnErrorResult(future, anyFailed, actors) ==
    IF future # "pending" THEN future
    ELSE IF anyFailed THEN "master_tlog_failed"
    ELSE actors

PushInit ==
    /\ \E n \in 1..MaxPushLogs :
        /\ logServers = [i \in 1..n |-> [present |-> TRUE]]
        /\ tLogWriteAntiQuorum \in 0..(n - 1)
        /\ tLogReplicationFactor = n
    /\ epochEndVersion = {}
    /\ oldLogData = <<>>
    /\ PushIdle
    /\ PopIdle
    /\ peekCursor = {}
    /\ RecoveryIdle
    /\ AuxIdle

\* The commit actors of version v that were cancelled.
Cancelled(v) == {loc \in DOMAIN commitOutcome[v] : commitOutcome[v][loc] = "actor_cancelled"}

\* push(prevVersion, version, ...): one commit RPC per log server, all added to
\* actors, and the quorum future over them.
Push ==
    /\ Len(commitReply) < MaxPushes
    /\ \A loc \in DOMAIN logServers : logServers[loc].present
    /\ \A v \in DOMAIN commitOutcome : Cancelled(v) = {}
    /\ LET tLogCommitResults == [loc \in DOMAIN logServers |-> "pending"]
       IN  /\ commitReply' = Append(commitReply, tLogCommitResults)
           /\ commitOutcome' = Append(commitOutcome, tLogCommitResults)
           /\ pushFuture' = Append(pushFuture,
                  quorum(tLogCommitResults,
                         PushQuorumCount(Len(tLogCommitResults), tLogWriteAntiQuorum)))
    /\ UNCHANGED <<sysVars, actorsResult, popVars, peekCursor, recVars, auxVars>>

\* The commit RPC of version v to location loc ends with `outcome`.
CommitDone(v, loc, outcome) ==
    /\ v \in DOMAIN commitReply
    /\ loc \in DOMAIN commitReply[v]
    /\ commitReply[v][loc] = "pending"
    /\ LET res == reportTLogCommitErrors(outcome)
           replies == [commitReply[v] EXCEPT ![loc] = res]
       IN  /\ commitReply' = [commitReply EXCEPT ![v] = replies]
           /\ pushFuture' = [pushFuture EXCEPT ![v] =
                  Settle(@, quorum(replies, PushQuorumCount(Len(replies), tLogWriteAntiQuorum)))]
           /\ commitOutcome' = [commitOutcome EXCEPT ![v][loc] = outcome]
           /\ actorsResult' = PushCommitAdded(actorsResult, res)
           /\ onErrorFuture' = OnErrorResult(onErrorFuture, FALSE, actorsResult')
    /\ UNCHANGED <<sysVars, popVars, peekCursor, recVars, onErrorFailed, failureFired, rejoinVars, lockVars, epochVars>>

CommitAck == \E v \in DOMAIN commitReply : \E loc \in DOMAIN logServers : CommitDone(v, loc, "ok")
CommitBrokenPromise == \E v \in DOMAIN commitReply : \E loc \in DOMAIN logServers : CommitDone(v, loc, "broken_promise")
CommitStopped == \E v \in DOMAIN commitReply : \E loc \in DOMAIN logServers : CommitDone(v, loc, "tlog_stopped")

\* The log system goes away with commits outstanding: `actors` is destroyed and every commit
\* actor still waiting for its reply is cancelled.
CommitsCancelled ==
    /\ \E v \in DOMAIN commitReply : \E loc \in DOMAIN commitReply[v] : commitReply[v][loc] = "pending"
    /\ commitOutcome' = [v \in DOMAIN commitOutcome |-> [loc \in DOMAIN commitOutcome[v] |->
                             IF commitOutcome[v][loc] = "pending" THEN "actor_cancelled"
                             ELSE commitOutcome[v][loc]]]
    /\ commitReply' = [v \in DOMAIN commitReply |-> [loc \in DOMAIN commitReply[v] |->
                             IF commitReply[v][loc] = "pending"
                             THEN reportTLogCommitErrors("actor_cancelled")
                             ELSE commitReply[v][loc]]]
    /\ pushFuture' = [v \in DOMAIN pushFuture |->
                         Settle(pushFuture[v],
                                quorum(commitReply'[v],
                                       PushQuorumCount(Len(commitReply'[v]), tLogWriteAntiQuorum)))]
    /\ UNCHANGED <<sysVars, actorsResult, popVars, peekCursor, recVars, auxVars>>

PushNext == Push \/ CommitAck \/ CommitBrokenPromise \/ CommitStopped \/ CommitsCancelled

SpecPush == PushInit /\ [][PushNext]_vars

Acked(v) == {loc \in DOMAIN commitReply[v] : commitReply[v][loc] = "ok"}
NotAcked(v) == {loc \in DOMAIN commitReply[v] : commitReply[v][loc] # "ok"}

\* C1: a push future is ready (success) only in a state where at least
\* N - AQ of that push's commit RPCs are acknowledged, so at most AQ of
\* them have failed or are still outstanding.
C1_PushSuccessNeedsQuorum ==
    \A v \in DOMAIN pushFuture :
        pushFuture[v] = "ready" =>
            /\ Cardinality(Acked(v)) >= Len(logServers) - tLogWriteAntiQuorum
            /\ Cardinality(NotAcked(v)) <= tLogWriteAntiQuorum

\* A push succeeded with an anti-quorum of its commits failed or outstanding.
C1_Witness ==
    \E v \in DOMAIN pushFuture :
        /\ pushFuture[v] = "ready"
        /\ tLogWriteAntiQuorum > 0
        /\ Cardinality(NotAcked(v)) = tLogWriteAntiQuorum
        /\ \E loc \in NotAcked(v) : commitReply[v][loc] = "master_tlog_failed"

\* =====================================================================
\* pop / popFromLog
\* =====================================================================

\* The tags popped.
PopTags == {7}
PopKeys == {<<log, tag>> : log \in DOMAIN logServers, tag \in PopTags}

\* std::map::operator[]: the value of the key, which is inserted with 0 when absent.
MapGet(m, k) == IF k \in DOMAIN m THEN m[k] ELSE 0
MapPut(m, k, v) == [x \in DOMAIN m \cup {k} |-> IF x = k THEN v ELSE m[x]]
MapErase(m, k) == [x \in DOMAIN m \ {k} |-> m[x]]
RemoveAt(s, i) == SubSeq(s, 1, i - 1) \o SubSeq(s, i + 1, Len(s))

\* pop(): `if (prev < upTo) outstandingPops[...] = upTo`.
PopTargetLatest(prev, upTo) == upTo
PopTarget(prev, upTo) == IF prev < upTo THEN upTo ELSE prev

\* pop(): `if (prev == 0) actors.add( popFromLog(...) )`.
PopSpawnsOnEveryAdvance(prev, upTo) == prev < upTo
PopSpawns(prev, upTo) == prev = 0

\* popFromLog(): `if (to <= last) { erase; return }`.
PopDrainedStrict(to, last) == to < last
PopDrained(to, last) == to <= last

\* A log system built by fromLogSystemConfig() holds a handle without interface
\* for a TLog whose interface is not known; the logs being interchangeable for
\* pop(), that is the last one or none.
PopInit ==
    /\ \E n \in 1..MaxPopLogs :
        /\ \E absent \in SUBSET {n} :
              logServers = [i \in 1..n |-> [present |-> i \notin absent]]
        /\ tLogWriteAntiQuorum = 0
        /\ tLogReplicationFactor = n
    /\ epochEndVersion = {}
    /\ oldLogData = <<>>
    /\ PushIdle
    /\ outstandingPops = <<>>
    /\ popTasks = [k \in PopKeys |-> <<>>]
    /\ popRpcs = [k \in PopKeys |-> <<>>]
    /\ popSpawned = [k \in PopKeys |-> 0]
    /\ popCalls = 0
    /\ popArrived = [k \in PopKeys |-> <<>>]
    /\ popExit = [k \in PopKeys |-> "none"]
    /\ peekCursor = {}
    /\ RecoveryIdle
    /\ AuxIdle

\* The key's actor is in its first delay(1.0).
PopNotWokenYet(tasks) == Len(tasks) = 1 /\ tasks[1].pc = "delay" /\ tasks[1].last = 0

\* pop(upTo, tag)
Pop(upTo, tag) ==
    /\ popCalls < MaxPopCalls
    /\ popCalls' = popCalls + 1
    /\ IF Len(logServers) = 0 \/ upTo = 0
       THEN UNCHANGED <<outstandingPops, popTasks, popSpawned, popArrived>>
       ELSE LET keys == {<<log, tag>> : log \in DOMAIN logServers}
                prev(k) == MapGet(outstandingPops, k)
                spawn(k) == k \in keys /\ PopSpawns(prev(k), upTo)
            IN  /\ outstandingPops' =
                       [k \in DOMAIN outstandingPops \cup keys |->
                           IF k \in keys
                           THEN PopTarget(prev(k), upTo)
                           ELSE outstandingPops[k]]
                /\ popArrived' = [k \in PopKeys |->
                                     IF spawn(k) THEN <<upTo>>
                                     ELSE IF k \in keys /\ PopNotWokenYet(popTasks[k])
                                     THEN Append(popArrived[k], upTo)
                                     ELSE popArrived[k]]
                /\ popSpawned' = [k \in PopKeys |-> IF spawn(k) THEN popSpawned[k] + 1 ELSE popSpawned[k]]
                /\ popTasks' =
                       [k \in PopKeys |->
                           IF spawn(k)
                           THEN Append(popTasks[k], [pc |-> "delay", last |-> 0, to |-> 0, id |-> popSpawned[k] + 1])
                           ELSE popTasks[k]]
    /\ UNCHANGED <<sysVars, pushVars, popRpcs, popExit, peekCursor, recVars, auxVars>>

PopCall == \E upTo \in 0..MaxPopVersion : \E tag \in PopTags : Pop(upTo, tag)

\* popFromLog wakes from delay(1.0) and finds nothing new: it erases the key and returns.
PopTaskDrained ==
    \E k \in PopKeys : \E i \in DOMAIN popTasks[k] :
        /\ popTasks[k][i].pc = "delay"
        /\ PopDrained(MapGet(outstandingPops, k), popTasks[k][i].last)
        /\ outstandingPops' = MapErase(outstandingPops, k)
        /\ popTasks' = [popTasks EXCEPT ![k] = RemoveAt(@, i)]
        /\ popArrived' = [popArrived EXCEPT ![k] = <<>>]
        /\ popExit' = [popExit EXCEPT ![k] = "drained"]
        /\ actorsResult' = ActorsAdd(actorsResult, "ok")
        /\ UNCHANGED <<sysVars, commitReply, commitOutcome, pushFuture, popRpcs, popSpawned, popCalls,
                       peekCursor, recVars, auxVars>>

\* popFromLog wakes, has something to send, and the handle holds no interface:
\* it returns and the key stays.
PopTaskNotPresent ==
    \E k \in PopKeys : \E i \in DOMAIN popTasks[k] :
        /\ popTasks[k][i].pc = "delay"
        /\ ~PopDrained(MapGet(outstandingPops, k), popTasks[k][i].last)
        /\ ~logServers[k[1]].present
        /\ outstandingPops' = MapPut(outstandingPops, k, MapGet(outstandingPops, k))
        /\ popTasks' = [popTasks EXCEPT ![k] = RemoveAt(@, i)]
        /\ popExit' = [popExit EXCEPT ![k] = "not_present"]
        /\ popArrived' = [popArrived EXCEPT ![k] = <<>>]
        /\ actorsResult' = ActorsAdd(actorsResult, "ok")
        /\ UNCHANGED <<sysVars, commitReply, commitOutcome, pushFuture, popRpcs, popSpawned, popCalls,
                       peekCursor, recVars, auxVars>>

\* popFromLog wakes and sends TLogPopRequest(to, tag) to the log.
PopTaskSend ==
    \E k \in PopKeys : \E i \in DOMAIN popTasks[k] :
        /\ popTasks[k][i].pc = "delay"
        /\ ~PopDrained(MapGet(outstandingPops, k), popTasks[k][i].last)
        /\ logServers[k[1]].present
        /\ LET to == MapGet(outstandingPops, k)
           IN  /\ outstandingPops' = MapPut(outstandingPops, k, to)
               /\ popTasks' = [popTasks EXCEPT ![k][i].pc = "rpc", ![k][i].to = to]
               /\ popRpcs' = [popRpcs EXCEPT ![k] = Append(@, [upTo |-> to, task |-> popTasks[k][i].id])]
               /\ popArrived' = [popArrived EXCEPT ![k] = <<>>]
        /\ UNCHANGED <<sysVars, pushVars, popSpawned, popCalls, popExit, peekCursor, recVars, auxVars>>

\* The log acknowledges the pop: `last = to`, back to the delay.
PopReply ==
    \E k \in PopKeys : \E i \in DOMAIN popTasks[k] :
        /\ popTasks[k][i].pc = "rpc"
        /\ popTasks' = [popTasks EXCEPT ![k][i].pc = "delay", ![k][i].last = popTasks[k][i].to]
        /\ UNCHANGED <<sysVars, pushVars, outstandingPops, popRpcs, popSpawned, popCalls, popArrived,
                       popExit, peekCursor, recVars, auxVars>>

\* The catch block of popFromLog: is the error thrown on, is LogPopError traced.
popFromLogCatchRethrowsAll(code) ==
    [rethrown |-> TRUE, traced |-> code # "actor_cancelled"]
popFromLogCatch(code) ==
    IF code = "actor_cancelled"
    THEN [rethrown |-> TRUE, traced |-> FALSE]
    ELSE [rethrown |-> FALSE, traced |-> TRUE]

PopErrorCodes == {"broken_promise", "tlog_stopped", "actor_cancelled"}

\* The pop RPC fails or the actor is cancelled while it waits for the reply: the
\* actor ends, by the throw or by the return, leaving outstandingPops filled in.
PopError ==
    \E k \in PopKeys : \E i \in DOMAIN popTasks[k] : \E code \in PopErrorCodes :
        /\ popTasks[k][i].pc = "rpc"
        /\ popFromLogCatch(code).rethrown \/ popFromLogCatch(code).traced
        /\ popTasks' = [popTasks EXCEPT ![k] = RemoveAt(@, i)]
        /\ popExit' = [popExit EXCEPT ![k] = IF code = "actor_cancelled" THEN "cancelled" ELSE "error"]
        /\ actorsResult' = ActorsAdd(actorsResult, IF popFromLogCatch(code).rethrown THEN code ELSE "ok")
        /\ UNCHANGED <<sysVars, commitReply, commitOutcome, pushFuture, outstandingPops, popRpcs,
                       popSpawned, popCalls, popArrived, peekCursor, recVars, auxVars>>

PopNext == PopCall \/ PopTaskDrained \/ PopTaskNotPresent \/ PopTaskSend \/ PopReply \/ PopError

SpecPop == PopInit /\ [][PopNext]_vars

InFlight(k) == {i \in DOMAIN popTasks[k] : popTasks[k][i].pc = "rpc"}

\* C2 as stated: for every log and tag the up_to values of the pop RPCs the
\* log receives are non-decreasing over the whole run.
C2_PopStreamNonDecreasing ==
    \A k \in DOMAIN popRpcs : \A i, j \in DOMAIN popRpcs[k] :
        i < j => popRpcs[k][i].upTo <= popRpcs[k][j].upTo

\* C2 amended: the up_to values sent by one popFromLog actor are strictly
\* increasing (a pop at or below what the running actor already sent causes no
\* RPC), and the actors of a key send one after the other.
C2_PopStreamIncreasingPerTask ==
    \A k \in DOMAIN popRpcs : \A i, j \in DOMAIN popRpcs[k] :
        i < j =>
            /\ popRpcs[k][i].task <= popRpcs[k][j].task
            /\ popRpcs[k][i].task = popRpcs[k][j].task => popRpcs[k][i].upTo < popRpcs[k][j].upTo

\* One actor has sent pop(1) and, after a second pop() call, pop(2), and is
\* back in its delay with nothing left to send.
C2_Witness ==
    \E k \in DOMAIN popRpcs :
        /\ popCalls = 2
        /\ Len(popRpcs[k]) = 2
        /\ popRpcs[k][1].task = popRpcs[k][2].task
        /\ popRpcs[k][1].upTo = 1 /\ popRpcs[k][2].upTo = 2
        /\ Len(popTasks[k]) = 1
        /\ popTasks[k][1].pc = "delay"
        /\ popTasks[k][1].last = MapGet(outstandingPops, k)

\* C3: in every reachable state and for every key, at most one popFromLog actor
\* is alive (and only while its key is in outstandingPops) and at most one pop
\* RPC is in flight; and an actor is started for a key only by a step that
\* finds the key absent from outstandingPops.
C3_OnePopTaskPerKey ==
    /\ [](\A k \in DOMAIN popTasks :
            /\ Len(popTasks[k]) <= 1
            /\ Cardinality(InFlight(k)) <= 1
            /\ Len(popTasks[k]) > 0 => k \in DOMAIN outstandingPops)
    /\ [][\A k \in DOMAIN popSpawned :
            popSpawned'[k] # popSpawned[k] => k \notin DOMAIN outstandingPops]_vars

\* A second actor was started for a key after the first one drained, while a
\* pop RPC of it is in flight.
C3_Witness ==
    \E k \in DOMAIN popTasks :
        /\ popSpawned[k] >= 2
        /\ Len(popTasks[k]) = 1
        /\ Cardinality(InFlight(k)) = 1
\* =====================================================================
\* peek / peekSingle / getPeekEnd
\* =====================================================================

\* Versions of the peek model, scaled so that the spec's scenario
\* (old[0].epochEnd = 1000, peek(500, 3)) is one of the cases.
PeekVersions == {500 * i : i \in 0..MaxPeekVersion}
\* std::numeric_limits<Version>::max(): above every version of the model.
VersionMax == 500 * (MaxPeekVersion + 2)
PeekTags == {0, 3}
\* Sizes of the TLog sets of the peeked log system (0: the log system of a new database).
PeekLogCounts == {0, 2}
OldPeekLogCounts == {1, 2}

\* getEnd(): epochEndVersion.get() + 1
getEnd == Get(epochEndVersion) + 1

\* getPeekEnd()
getPeekEnd == IF epochEndVersion # {} THEN getEnd ELSE VersionMax

\* bestLocationFor(tag), guarded at its call sites by logServers.size() ? ... : -1
bestLocationFor(tag) == tag % Len(logServers)
oldBestLocationFor(tag, idx) == tag % oldLogData[idx].nLogs

\* peek(): `oldLogData.size() == 0 || begin >= oldLogData[0].epochEnd`
\* (oldLogData[0] of the source is oldLogData[1] here).
PeekCurrentOnlyByOldestEpoch(begin) ==
    Len(oldLogData) = 0 \/ begin >= oldLogData[Len(oldLogData)].epochEnd
PeekCurrentOnly(begin) ==
    Len(oldLogData) = 0 \/ begin >= oldLogData[1].epochEnd

\* peek(): the loop condition `i < oldLogData.size() && begin < oldLogData[i].epochEnd`
OldCursorWantedInclusive(i, begin) ==
    i <= Len(oldLogData) /\ begin <= oldLogData[i].epochEnd
OldCursorWanted(i, begin) ==
    i <= Len(oldLogData) /\ begin < oldLogData[i].epochEnd

\* peek(): `i+1 == oldLogData.size() ? begin : std::max(oldLogData[i+1].epochEnd, begin)`
OldCursorBeginUnclamped(i, begin) ==
    IF i = Len(oldLogData) THEN begin ELSE oldLogData[i + 1].epochEnd
OldCursorBegin(i, begin) ==
    IF i = Len(oldLogData) THEN begin ELSE Max2(oldLogData[i + 1].epochEnd, begin)

\* new MergedPeekCursor(logServers, bestServer, readQuorum, tag, begin, end, ...)
\* over the current epoch (epoch 0); for peekSingle a ServerPeekCursor on the best server.
CurrentCursor(kind, tag, begin) ==
    [kind |-> kind, epoch |-> 0, tag |-> tag, begin |-> begin, end |-> getPeekEnd,
     bestServer |-> IF Len(logServers) # 0 THEN bestLocationFor(tag) ELSE -1,
     readQuorum |-> IF kind = "merged" THEN Len(logServers) + 1 - tLogReplicationFactor ELSE 1]

\* new MergedPeekCursor(oldLogData[i].logServers, ...) over old epoch i.
OldCursor(i, tag, begin) ==
    [kind |-> "merged", epoch |-> i, tag |-> tag,
     begin |-> OldCursorBegin(i, begin), end |-> oldLogData[i].epochEnd,
     bestServer |-> IF oldLogData[i].nLogs # 0 THEN oldBestLocationFor(tag, i) ELSE -1,
     readQuorum |-> oldLogData[i].nLogs + 1 - oldLogData[i].tLogReplicationFactor]

\* The for loop of peek()/peekSingle() from index i on.
RECURSIVE OldCursors(_, _, _)
OldCursors(i, tag, begin) ==
    IF OldCursorWanted(i, begin)
    THEN <<OldCursor(i, tag, begin)>> \o OldCursors(i + 1, tag, begin)
    ELSE <<>>

\* peek(begin, tag, parallelGetMore) for kind "merged", peekSingle(begin, tag) for "server".
PeekResult(kind, begin, tag) ==
    IF PeekCurrentOnly(begin)
    THEN [multi |-> FALSE, cursors |-> <<CurrentCursor(kind, tag, begin)>>, epochEnds |-> <<>>,
          begin |-> begin, tag |-> tag, single |-> kind = "server"]
    ELSE LET old == OldCursors(1, tag, begin)
         IN  [multi |-> TRUE,
              cursors |-> <<CurrentCursor(kind, tag, oldLogData[1].epochEnd)>> \o old,
              epochEnds |-> [j \in DOMAIN old |-> old[j].end],
              begin |-> begin, tag |-> tag, single |-> kind = "server"]

OldLogDataChoices ==
    [epochEnd : PeekVersions, nLogs : OldPeekLogCounts, tLogReplicationFactor : {1}]

\* A log system without log servers is the one epochEnd() publishes for a new
\* database: epochEndVersion = 0 and no old epochs.
PeekInit ==
    /\ \E n \in PeekLogCounts :
        /\ logServers = [i \in 1..n |-> [present |-> TRUE]]
        /\ tLogReplicationFactor \in (IF n = 0 THEN {0} ELSE 1..n)
        /\ epochEndVersion \in (IF n = 0 THEN {{0}} ELSE Opt(PeekVersions))
        /\ \E len \in 0..(IF n = 0 THEN 0 ELSE MaxOldEpochs) :
              oldLogData \in [1..len -> OldLogDataChoices]
    /\ tLogWriteAntiQuorum = 0
    /\ PushIdle
    /\ PopIdle
    /\ peekCursor = {}
    /\ RecoveryIdle
    /\ AuxIdle

Peek ==
    \E begin \in PeekVersions : \E tag \in PeekTags :
        /\ peekCursor' = {PeekResult("merged", begin, tag)}
        /\ UNCHANGED <<sysVars, pushVars, popVars, recVars, auxVars>>

PeekSingle ==
    \E begin \in PeekVersions : \E tag \in PeekTags :
        /\ peekCursor' = {PeekResult("server", begin, tag)}
        /\ UNCHANGED <<sysVars, pushVars, popVars, recVars, auxVars>>

PeekNext == Peek \/ PeekSingle

SpecPeek == PeekInit /\ [][PeekNext]_vars

\* The old-epoch list is ordered: epoch_end(i+1) <= epoch_end(i).
OldEpochsOrdered ==
    \A i \in 1..(Len(oldLogData) - 1) : oldLogData[i + 1].epochEnd <= oldLogData[i].epochEnd

\* Every version at which a range of the model can start or end, and its successor.
PeekProbes == UNION {{v, v + 1} : v \in PeekVersions}

\* The segment cursors of c whose range [begin, end) holds version v.
Covering(c, v) == {j \in DOMAIN c.cursors : c.cursors[j].begin <= v /\ v < c.cursors[j].end}

\* Exactly the versions of [begin, getPeekEnd()) are handed out, each to one segment.
ExactCover(c) ==
    \A v \in PeekProbes :
        Cardinality(Covering(c, v)) = (IF c.begin <= v /\ v < getPeekEnd THEN 1 ELSE 0)

\* C8 as stated: for an ordered old-epoch list and begin < getPeekEnd(), the
\* ranges handed to the segment cursors are pairwise disjoint and their union is
\* exactly [begin, getPeekEnd()).
C8_PeekCoversExactly ==
    \A c \in peekCursor :
        (OldEpochsOrdered /\ c.begin < getPeekEnd) => ExactCover(c)

\* C8 amended: the same, for log systems whose most recent old epoch does not
\* end above getPeekEnd() (oldLogData[0].epochEnd <= getPeekEnd()).
C8_PeekCoversExactlyWhenOldEndsBelowPeekEnd ==
    \A c \in peekCursor :
        (/\ OldEpochsOrdered
         /\ c.begin < getPeekEnd
         /\ (Len(oldLogData) > 0 => oldLogData[1].epochEnd <= getPeekEnd))
        => ExactCover(c)

\* A peek of a frozen log system that straddles two old epochs and the current one.
C8_Witness ==
    \E c \in peekCursor :
        /\ OldEpochsOrdered
        /\ epochEndVersion # {}
        /\ Len(oldLogData) = 2
        /\ oldLogData[2].epochEnd < oldLogData[1].epochEnd
        /\ oldLogData[1].epochEnd < getPeekEnd
        /\ c.begin < oldLogData[2].epochEnd
        /\ Len(c.cursors) = 3
        /\ ~c.single

\* C9 as stated: peek returns the single current-epoch cursor exactly when
\* there are no old epochs or begin >= the epoch_end of the oldest old epoch
\* (the last entry of the list).
C9_SingleCursorIffBeyondOldestEpoch ==
    \A c \in peekCursor :
        (~c.single /\ OldEpochsOrdered) =>
            (~c.multi <=> (Len(oldLogData) = 0 \/ c.begin >= oldLogData[Len(oldLogData)].epochEnd))

\* C9 amended: peek returns the single merged cursor over the current epoch,
\* from begin to getPeekEnd(), exactly when there are no old epochs or begin >=
\* the epoch_end of the most recent old epoch (the first entry of the list);
\* in every other case it returns a multi-cursor.
C9_SingleCursorIffBeyondNewestOldEpoch ==
    \A c \in peekCursor :
        ~c.single =>
            /\ ~c.multi <=> (Len(oldLogData) = 0 \/ c.begin >= oldLogData[1].epochEnd)
            /\ ~c.multi =>
                  /\ Len(c.cursors) = 1
                  /\ c.cursors[1].kind = "merged"
                  /\ c.cursors[1].epoch = 0
                  /\ c.cursors[1].begin = c.begin
                  /\ c.cursors[1].end = getPeekEnd
            /\ c.multi => Len(c.cursors) >= 2

\* A peek between the ends of the oldest and of the most recent old epoch
\* returned a multi-cursor.
C9_Witness ==
    \E c \in peekCursor :
        /\ ~c.single
        /\ c.multi
        /\ OldEpochsOrdered
        /\ Len(oldLogData) = 2
        /\ oldLogData[2].epochEnd <= c.begin
        /\ c.begin < oldLogData[1].epochEnd

\* The number of leading old epochs that end above begin.
LeadingEpochsAbove(begin) ==
    Cardinality({i \in DOMAIN oldLogData : \A j \in 1..i : begin < oldLogData[j].epochEnd})

\* C10: a multi-cursor starts with the current epoch from oldLogData[0].epochEnd
\* and continues, most recent first, with one segment for each old epoch i such
\* that begin < epochEnd holds for i and every more recent old epoch; segment i
\* covers [max(begin, old[i+1].epochEnd), old[i].epochEnd), with lower bound
\* begin for the oldest old epoch; an old epoch that ends at or below begin
\* gets no segment.
C10_MultiCursorSegments ==
    \A c \in peekCursor :
        (~c.single /\ c.multi) =>
            /\ c.cursors[1].epoch = 0
            /\ c.cursors[1].kind = "merged"
            /\ c.cursors[1].begin = oldLogData[1].epochEnd
            /\ c.cursors[1].end = getPeekEnd
            /\ Len(c.cursors) = 1 + LeadingEpochsAbove(c.begin)
            /\ \A i \in 1..(Len(c.cursors) - 1) :
                  /\ c.cursors[i + 1].epoch = i
                  /\ c.cursors[i + 1].kind = "merged"
                  /\ c.cursors[i + 1].end = oldLogData[i].epochEnd
                  /\ c.cursors[i + 1].begin =
                        (IF i = Len(oldLogData) THEN c.begin
                         ELSE IF oldLogData[i + 1].epochEnd > c.begin
                              THEN oldLogData[i + 1].epochEnd ELSE c.begin)
            /\ \A i \in DOMAIN oldLogData :
                  oldLogData[i].epochEnd <= c.begin =>
                      \A j \in DOMAIN c.cursors : c.cursors[j].epoch # i
            /\ (/\ epochEndVersion = {}
                /\ Len(oldLogData) = 1
                /\ oldLogData[1].epochEnd = 1000
                /\ c.begin = 500 /\ c.tag = 3)
               => /\ Len(c.cursors) = 2
                  /\ c.cursors[1].begin = 1000 /\ c.cursors[1].end = VersionMax
                  /\ c.cursors[2].begin = 500 /\ c.cursors[2].end = 1000

\* peek(500, 3) on a serving log system whose only old epoch ends at 1000, and
\* a peek that leaves out an old epoch lying below begin.
C10_Witness ==
    \E c \in peekCursor :
        /\ ~c.single /\ c.multi
        /\ epochEndVersion = {}
        /\ Len(oldLogData) = 1
        /\ oldLogData[1].epochEnd = 1000
        /\ c.begin = 500 /\ c.tag = 3

\* =====================================================================
\* epochEnd: locking the previous epoch's TLogs and choosing its end
\* =====================================================================
\* TLogLockResult.end and .knownCommittedVersion values a TLog may report.
LockEnds == {95, 100, 103, 105}
LockKnownCommitted == {90, 100}
\* SERVER_KNOBS->MAX_READ_TRANSACTION_LIFE_VERSIONS, on the scale of LockEnds.
MAX_READ_TRANSACTION_LIFE_VERSIONS == 7
\* The tags TLog t reports in TLogLockResult.tags.
LockTags(t) == {t - 1}
\* prevState.tLogLocalities: every TLog in a zone of its own, or the first two sharing one.
LocalityChoices(n) == {[t \in 1..n |-> t], [t \in 1..n |-> Max2(1, t - 1)]}

\* IReplicationPolicy: prevState.tLogPolicy is PolicyAcross(count, "zoneid", PolicyOne), kept
\* as its count.  LocalityGroup::validate: the group holds `policy` distinct zones.
validate(group, localities, policy) ==
    Cardinality({localities[t] : t \in group}) >= policy
\* validateAllCombinations(badCombo, localitySet, policy, newItems, nCombinationSize, false):
\* TRUE iff the set alone does not satisfy the policy and neither does it with any
\* nCombinationSize of the new items added.
validateAllCombinations(localitySet, localities, policy, newItems, nCombinationSize) ==
    /\ nCombinationSize <= Cardinality(newItems)
    /\ nCombinationSize # 0
    /\ ~validate(localitySet, localities, policy)
    /\ \A combo \in SUBSET newItems :
           Cardinality(combo) = nCombinationSize
               => ~validate(localitySet \cup combo, localities, policy)

\* What the loop waits for on slot t (the vector `changes`).
changesReplyOnly(reply) == [t \in DOMAIN reply |-> "reply"]
changes(reply) == [t \in DOMAIN reply |-> IF reply[t] = {} THEN "reply" ELSE "onChange"]

Responsive(reply, failed) == {t \in DOMAIN reply : reply[t] # {} /\ ~failed[t]}
unResponsiveSet(reply, failed) == DOMAIN reply \ Responsive(reply, failed)

\* std::sort(results.begin(), results.end(), sort_by_end())
RECURSIVE SortByEnd(_, _)
SortByEnd(ts, reply) ==
    IF ts = {} THEN <<>>
    ELSE LET m == CHOOSE t \in ts : \A u \in ts : Get(reply[t]).end <= Get(reply[u]).end
         IN  <<Get(reply[m])>> \o SortByEnd(ts \ {m}, reply)
resultsAsPushed(reply, failed) ==
    LET responsive == Responsive(reply, failed)
        rank(t) == Cardinality({u \in responsive : u <= t})
    IN  [i \in 1..Cardinality(responsive) |-> Get(reply[CHOOSE t \in responsive : rank(t) = i])]
results(reply, failed) == SortByEnd(Responsive(reply, failed), reply)

ResultsWithinAntiQuorumOrOne(reply, failed) ==
    Cardinality(Responsive(reply, failed)) <= prevState.tLogWriteAntiQuorum + 1
ResultsWithinAntiQuorum(reply, failed) ==
    Cardinality(Responsive(reply, failed)) <= prevState.tLogWriteAntiQuorum
FailedLogsCompletePolicyUnchecked(reply, failed) ==
    FALSE
FailedLogsCompletePolicy(reply, failed) ==
    /\ Cardinality(unResponsiveSet(reply, failed)) >= prevState.tLogReplicationFactor
    /\ validate(unResponsiveSet(reply, failed), prevState.tLogLocalities, prevState.tLogPolicy)
BadComboUnchecked(reply, failed) ==
    FALSE
BadCombo(reply, failed) ==
    /\ prevState.tLogWriteAntiQuorum # 0
    /\ ~validateAllCombinations(unResponsiveSet(reply, failed), prevState.tLogLocalities,
                                prevState.tLogPolicy, Responsive(reply, failed),
                                prevState.tLogWriteAntiQuorum)
bTooManyFailures(reply, failed) ==
    \/ ResultsWithinAntiQuorum(reply, failed)
    \/ FailedLogsCompletePolicy(reply, failed)
    \/ BadCombo(reply, failed)

absent(reply, failed) == Len(logServers) - Len(results(reply, failed))
new_safe_range_begin_lowest(reply, failed) ==
    0
new_safe_range_begin(reply, failed) ==
    Min2(prevState.tLogWriteAntiQuorum, Len(results(reply, failed)) - 1)
safe_range_end(reply, failed) == prevState.tLogReplicationFactor - absent(reply, failed)
endOfFirstResult(reply, failed) == results(reply, failed)[1].end
end(reply, failed) == results(reply, failed)[new_safe_range_begin(reply, failed) + 1].end
RECURSIVE MaxOf(_)
MaxOf(S) == IF Cardinality(S) = 1 THEN Get(S) ELSE LET x == Get(S) IN Max2(x, MaxOf(S \ {x}))
knownCommittedVersion(reply, failed) ==
    MaxOf({end(reply, failed) - MAX_READ_TRANSACTION_LIFE_VERSIONS}
          \cup {Get(reply[t]).knownCommittedVersion : t \in Responsive(reply, failed)})
RestartEarlierAlways(reply, failed) ==
    TRUE
RestartEarlier(reply, failed) ==
    /\ safe_range_end(reply, failed) > 0
    /\ safe_range_end(reply, failed) - 1 < Len(results(reply, failed))
    /\ results(reply, failed)[safe_range_end(reply, failed)].end < Get(last_end)
Publishes(reply, failed) ==
    /\ prevState.logSystemType = 2
    /\ last_end = {} \/ RestartEarlier(reply, failed)

\* OptionalInterface<TLogInterface>(UID): a handle's content without an interface, as the
\* handles epochEnd makes of the UIDs of a DBCoreState (lines 561-563 and 570-572).
HandleOfUID(id) == [id |-> id, present |-> FALSE]
HandlesOfUIDs(ids) == [j \in DOMAIN ids |-> HandleOfUID(ids[j])]

\* epochEnd, lines 568-579: the old epochs of the recovered log system.
EpochEndOldLogData(oldTLogData) ==
    [i \in DOMAIN oldTLogData |->
        [logServers |-> HandlesOfUIDs(oldTLogData[i].tLogs),
         tLogWriteAntiQuorum |-> oldTLogData[i].tLogWriteAntiQuorum,
         tLogReplicationFactor |-> oldTLogData[i].tLogReplicationFactor,
         tLogPolicy |-> oldTLogData[i].tLogPolicy,
         tLogLocalities |-> oldTLogData[i].tLogLocalities,
         epochEnd |-> oldTLogData[i].epochEnd]]

\* The log system set into outLogSystem.  Its logServers are the handles themselves.
NewLogSystem(reply, failed) ==
    [ logSystemType          |-> prevState.logSystemType,
      tLogReplicationFactor  |-> prevState.tLogReplicationFactor,
      tLogWriteAntiQuorum    |-> prevState.tLogWriteAntiQuorum,
      tLogPolicy             |-> prevState.tLogPolicy,
      tLogLocalities         |-> prevState.tLogLocalities,
      oldLogData             |-> EpochEndOldLogData(prevState.oldTLogData),
      epochEndVersion        |-> end(reply, failed),
      knownCommittedVersion  |-> knownCommittedVersion(reply, failed),
      epochEndTags           |-> UNION {Get(reply[t]).tags : t \in Responsive(reply, failed)} ]

NewDatabaseLogSystemKeepingVersion(state) ==
    [ logSystemType          |-> state.logSystemType,
      tLogReplicationFactor  |-> state.tLogReplicationFactor,
      tLogWriteAntiQuorum    |-> state.tLogWriteAntiQuorum,
      tLogPolicy             |-> state.tLogPolicy,
      tLogLocalities         |-> state.tLogLocalities,
      oldLogData             |-> <<>>,
      epochEndVersion        |-> 0,
      knownCommittedVersion  |-> -1,
      epochEndTags           |-> {} ]
\* The log system of a brand new database.
NewDatabaseLogSystem(state) ==
    [ logSystemType          |-> state.logSystemType,
      tLogReplicationFactor  |-> state.tLogReplicationFactor,
      tLogWriteAntiQuorum    |-> state.tLogWriteAntiQuorum,
      tLogPolicy             |-> state.tLogPolicy,
      tLogLocalities         |-> state.tLogLocalities,
      oldLogData             |-> <<>>,
      epochEndVersion        |-> 0,
      knownCommittedVersion  |-> 0,
      epochEndTags           |-> {} ]

\* One iteration of the loop of epochEnd, over the lock replies and failure flags it finds.
LoopIteration(reply, failed) ==
    /\ resumed' = TRUE
    /\ IF ~bTooManyFailures(reply, failed) /\ Publishes(reply, failed)
       THEN /\ Len(published) < MaxPublications
            /\ last_end' = {end(reply, failed)}
            /\ outLogSystem' = {NewLogSystem(reply, failed)}
            /\ published' = Append(published, end(reply, failed))
       ELSE UNCHANGED <<last_end, outLogSystem, published>>
\* The event fired none of the futures the loop waits for.
LoopAsleep ==
    /\ resumed' = FALSE
    /\ UNCHANGED <<last_end, outLogSystem, published>>

\* With TLogs in prevState, the state epochEnd reaches at its first wait: no handle holds an
\* interface, monitorLog has set every failure flag, trackRejoins runs, every lock is
\* outstanding, and the first iteration found too many failures.  With none, epochEnd is
\* about to run.
\* The epoch before the one recovered: one TLog, ended at version 90.
InitialOldTLogData ==
    [tLogs |-> <<9>>, tLogWriteAntiQuorum |-> 0, tLogReplicationFactor |-> 1, tLogPolicy |-> 1,
     tLogLocalities |-> <<1>>, epochEnd |-> 90]

RecoveryInit ==
    /\ \E n \in 0..MaxRecoveryLogs :
         /\ logServers = [t \in 1..n |-> [present |-> FALSE]]
         /\ tLogReply = [t \in 1..n |-> {}]
         /\ logFailed = [t \in 1..n |-> TRUE]
         /\ resumed = (n > 0)
         /\ IF n = 0
            THEN /\ prevState = [tLogs |-> <<>>, logSystemType |-> 0, tLogReplicationFactor |-> 0,
                                 tLogWriteAntiQuorum |-> 0, tLogPolicy |-> 0,
                                 tLogLocalities |-> <<>>, oldTLogData |-> <<>>]
                 /\ epochEndPc = "start"
                 /\ rejoins = "invalid"
            ELSE /\ \E R \in 1..n : \E antiQuorum \in 0..(R - 1) :
                    \E localities \in LocalityChoices(n) :
                      /\ validate(1..n, localities, R)
                      /\ prevState = [tLogs |-> [t \in 1..n |-> t], logSystemType |-> 2,
                                      tLogReplicationFactor |-> R,
                                      tLogWriteAntiQuorum |-> antiQuorum, tLogPolicy |-> R,
                                      tLogLocalities |-> localities,
                                      oldTLogData |-> <<InitialOldTLogData>>]
                 /\ epochEndPc = "changes"
                 /\ rejoins = "running"
    /\ outLogSystem = {}
    /\ published = <<>>
    /\ last_end = {}
    /\ tLogWriteAntiQuorum = 0 /\ tLogReplicationFactor = 0
    /\ epochEndVersion = {} /\ oldLogData = <<>>
    /\ PushIdle /\ PopIdle /\ peekCursor = {}
    /\ AuxIdle

\* trackRejoins: TLog t rejoins with an interface the handle does not hold; the handle is set.
\* lockTLog asks the new interface if its lock is outstanding; the loop runs if it waits for
\* the handle to change.
TLogRejoin(t) ==
    /\ rejoins = "running"
    /\ logServers' = [logServers EXCEPT ![t] = [present |-> TRUE]]
    /\ UNCHANGED <<tLogReply, logFailed>>
    /\ IF changes(tLogReply)[t] = "onChange"
       THEN LoopIteration(tLogReply, logFailed)
       ELSE LoopAsleep
    /\ UNCHANGED <<prevState, epochEndPc, rejoins, tLogWriteAntiQuorum, tLogReplicationFactor,
                   epochEndVersion, oldLogData, pushVars, popVars, peekCursor, auxVars>>

\* lockTLog: the interface the handle holds answers the lock request.
TLogLocked(t, data) ==
    /\ logServers[t].present
    /\ tLogReply[t] = {}
    /\ tLogReply' = [tLogReply EXCEPT ![t] = {data}]
    /\ UNCHANGED logFailed
    /\ LoopIteration(tLogReply', logFailed)
    /\ UNCHANGED <<prevState, epochEndPc, rejoins, sysVars, pushVars, popVars, peekCursor, auxVars>>

\* waitFailureTracker, started by monitorLog on the interface the handle holds, sets the flag.
FailureChange(t) ==
    /\ logServers[t].present
    /\ logFailed' = [logFailed EXCEPT ![t] = ~logFailed[t]]
    /\ UNCHANGED tLogReply
    /\ IF changes(tLogReply)[t] = "onChange"
       THEN LoopIteration(tLogReply, logFailed')
       ELSE LoopAsleep
    /\ UNCHANGED <<prevState, epochEndPc, rejoins, sysVars, pushVars, popVars, peekCursor, auxVars>>

\* epochEnd on a brand new database: the empty log system is set and epochEnd waits forever.
EpochEndNewDatabase ==
    /\ epochEndPc = "start"
    /\ Len(prevState.tLogs) = 0
    /\ outLogSystem' = {NewDatabaseLogSystem(prevState)}
    /\ published' = Append(published, 0)
    /\ epochEndPc' = "never"
    /\ UNCHANGED <<prevState, tLogReply, logFailed, last_end, resumed, rejoins, sysVars,
                   pushVars, popVars, peekCursor, auxVars>>

LockResults(t) ==
    [end : LockEnds, knownCommittedVersion : LockKnownCommitted, tags : {LockTags(t)}]

RecoveryNext ==
    \/ EpochEndNewDatabase
    \/ \E t \in DOMAIN logServers : TLogRejoin(t)
    \/ \E t \in DOMAIN logServers : \E data \in LockResults(t) : TLogLocked(t, data)
    \/ \E t \in DOMAIN logServers : FailureChange(t)

SpecRecovery == RecoveryInit /\ [][RecoveryNext]_vars

\* ---------------------------------------------------------------------
\* What the last iteration of the loop saw and decided, read off a state.
NowResponsive == Responsive(tLogReply, logFailed)
NowUnresponsive == unResponsiveSet(tLogReply, logFailed)
NowResults == results(tLogReply, logFailed)
NowSafeEnd == prevState.tLogReplicationFactor - Cardinality(NowUnresponsive)
EndsOf(ts) == [t \in ts |-> Get(tLogReply[t]).end]
\* The three conditions under which failures are not "too many".
EnoughResponsive == Cardinality(NowResponsive) > prevState.tLogWriteAntiQuorum
UnresponsiveIncomplete ==
    ~(/\ Cardinality(NowUnresponsive) >= prevState.tLogReplicationFactor
      /\ validate(NowUnresponsive, prevState.tLogLocalities, prevState.tLogPolicy))
CombinationsPass ==
    prevState.tLogWriteAntiQuorum > 0
        => validateAllCombinations(NowUnresponsive, prevState.tLogLocalities, prevState.tLogPolicy,
                                   NowResponsive, prevState.tLogWriteAntiQuorum)
NotTooMany == EnoughResponsive /\ UnresponsiveIncomplete /\ CombinationsPass
\* A step in which the loop sets a log system into outLogSystem.
PublishStep == published' # published /\ epochEndPc = "changes"
\* A step in which the loop ran.
IterationStep == resumed'

\* C4: a log system is published only by an iteration in which more than AQ TLogs are
\* responsive, the unresponsive TLogs do not both number at least the replication factor and
\* satisfy the policy, and (when AQ > 0) validateAllCombinations over the unresponsive set
\* passes; an iteration that finds too many failures leaves outLogSystem (and last_end)
\* as they were and goes back to waiting on every slot.
C4_PublishOnlyWhenNotTooMany ==
    /\ [][(epochEndPc = "changes"
              /\ (PublishStep \/ outLogSystem' # outLogSystem \/ last_end' # last_end))
             => IterationStep /\ NotTooMany']_vars
    /\ [][(IterationStep /\ ~NotTooMany')
             => /\ outLogSystem' = outLogSystem
                /\ published' = published
                /\ last_end' = last_end
                /\ DOMAIN changes(tLogReply') = DOMAIN logServers]_vars
\* A log system was published, then a TLog was flagged failed, and the iteration this
\* started found too many failures through the anti-quorum combinations alone.
C4_Witness ==
    /\ resumed
    /\ outLogSystem # {}
    /\ Len(prevState.tLogs) > 0
    /\ EnoughResponsive /\ UnresponsiveIncomplete /\ ~CombinationsPass
    /\ \E t \in DOMAIN logServers : tLogReply[t] # {} /\ logFailed[t]

AllZonesDistinct ==
    \A t, u \in DOMAIN prevState.tLogLocalities :
        prevState.tLogLocalities[t] = prevState.tLogLocalities[u] => t = u
ThreeLogsExample ==
    /\ Len(prevState.tLogs) = 3
    /\ prevState.tLogWriteAntiQuorum = 0
    /\ prevState.tLogReplicationFactor = 2
    /\ NowResponsive = {1, 2, 3}
    /\ EndsOf({1, 2, 3}) = <<100, 105, 103>>
SafeEndResult ==
    IF NowSafeEnd >= 1 /\ NowSafeEnd <= Len(NowResults)
    THEN {NowResults[NowSafeEnd].end}
    ELSE {}
\* C7: an iteration that does not find too many failures publishes a log system exactly when
\* none was published before or results[safe_end - 1].end is below the end last published;
\* when it publishes, last_end becomes the end of the log system published; when it does not,
\* outLogSystem and last_end are as before.  After a log system ending at 100, an iteration
\* with results[safe_end - 1].end = 95 publishes again.
C7_PublishIffFirstOrEarlier ==
    [][(IterationStep /\ NotTooMany')
          => /\ PublishStep <=> (\/ last_end = {}
                              \/ (SafeEndResult' # {} /\ Get(SafeEndResult') < Get(last_end)))
             /\ PublishStep
                  => /\ last_end' = {Get(outLogSystem').epochEndVersion}
                     /\ last_end' = {end(tLogReply, logFailed)'}
                     /\ published' = Append(published, Get(last_end'))
             /\ ~PublishStep => outLogSystem' = outLogSystem /\ last_end' = last_end
             /\ (last_end = {100} /\ SafeEndResult' = {95})
                  => PublishStep]_vars
\* A log system ending at 100 was published; then an iteration found results[safe_end - 1].end
\* = 95 and published one ending at 95.
C7_Witness ==
    /\ resumed
    /\ published = <<100, 95>>
    /\ last_end = {95}
    /\ NotTooMany
    /\ SafeEndResult = {95}

\* Three TLogs, replication factor 3, no anti-quorum, and exactly one of them responsive.
OneOfThreeResponsive ==
    /\ Len(prevState.tLogs) = 3
    /\ prevState.tLogReplicationFactor = 3
    /\ prevState.tLogWriteAntiQuorum = 0
    /\ Cardinality(NowResponsive) = 1
\* C19 (as stated): with three TLogs, replication factor 3, no anti-quorum and two of the three
\* unresponsive, no iteration of the loop publishes a log system.
C19_NoPublishWithTwoOfThreeUnresponsive ==
    [][(IterationStep /\ OneOfThreeResponsive') => ~PublishStep]_vars
\* C19 (amended): with three TLogs, replication factor 3 and no anti-quorum, two unresponsive
\* TLogs are fewer than the replication factor, so failures are not too many: the iteration
\* that finds one TLog responsive publishes its end when nothing was published before.  Only
\* with all three unresponsive does every iteration leave outLogSystem alone.
C19_PublishesWithTwoOfThreeUnresponsive ==
    /\ [][(IterationStep /\ OneOfThreeResponsive')
             => /\ NotTooMany'
                /\ last_end = {}
                     => /\ PublishStep
                        /\ \E t \in NowResponsive' :
                               Get(outLogSystem').epochEndVersion = Get(tLogReply'[t]).end]_vars
    /\ [][(IterationStep /\ Len(prevState.tLogs) = 3 /\ prevState.tLogReplicationFactor = 3
              /\ prevState.tLogWriteAntiQuorum = 0 /\ NowResponsive' = {})
             => ~PublishStep /\ outLogSystem' = outLogSystem]_vars
\* One of the three TLogs answered the lock, the other two never rejoined, and the log system
\* published ends where that TLog ends.
C19_Witness ==
    /\ resumed
    /\ OneOfThreeResponsive
    /\ Len(published) = 1
    /\ \A t \in NowUnresponsive : ~logServers[t].present
    /\ \E t \in NowResponsive : Get(outLogSystem).epochEndVersion = Get(tLogReply[t]).end

\* C14: when prevState has no TLogs, epochEnd sets exactly one log system into outLogSystem,
\* with epochEndVersion 0, knownCommittedVersion 0, no log servers and no old epochs; no
\* lock is asked for and trackRejoins is not started; after that epochEnd waits on a future
\* that never fires: nothing is set again and epochEnd neither returns nor fails.
C14_NewDatabasePublishesOnce ==
    /\ [](Len(prevState.tLogs) = 0
            => /\ epochEndPc \in {"start", "never"}
               /\ tLogReply = <<>> /\ logServers = <<>> /\ logFailed = <<>>
               /\ rejoins = "invalid"
               /\ last_end = {}
               /\ epochEndPc = "start" => outLogSystem = {} /\ published = <<>>
               /\ epochEndPc = "never"
                    => /\ published = <<0>>
                       /\ Cardinality(outLogSystem) = 1
                       /\ Get(outLogSystem).epochEndVersion = 0
                       /\ Get(outLogSystem).knownCommittedVersion = 0
                       /\ Get(outLogSystem).oldLogData = <<>>
                       /\ Get(outLogSystem).epochEndTags = {})
    /\ [][Len(prevState.tLogs) = 0
            => /\ epochEndPc = "start" /\ epochEndPc' = "never"
               /\ published' = <<0>>]_vars
\* The brand new database's log system has been set and epochEnd waits forever.
C14_Witness ==
    /\ Len(prevState.tLogs) = 0
    /\ epochEndPc = "never"
    /\ published = <<0>>
    /\ Get(outLogSystem).epochEndVersion = 0

\* C17: a commit RPC that ends with broken_promise gives master_tlog_failed, one
\* that ends with tlog_stopped gives tlog_stopped, one that is cancelled gives
\* actor_cancelled; master_tlog_failed comes from a broken promise only, and a
\* cancelled pop task is thrown on without LogPopError being traced.
C17_CancellationIsNotTLogFailure ==
    /\ \A v \in DOMAIN commitReply : \A loc \in DOMAIN commitReply[v] :
         /\ commitOutcome[v][loc] = "broken_promise" => commitReply[v][loc] = "master_tlog_failed"
         /\ commitOutcome[v][loc] = "tlog_stopped" => commitReply[v][loc] = "tlog_stopped"
         /\ commitOutcome[v][loc] = "actor_cancelled" => commitReply[v][loc] = "actor_cancelled"
         /\ commitReply[v][loc] = "master_tlog_failed" => commitOutcome[v][loc] = "broken_promise"
    /\ actorsResult = "master_tlog_failed" =>
         \E v \in DOMAIN commitReply : \E loc \in DOMAIN commitReply[v] :
             commitOutcome[v][loc] = "broken_promise"
    /\ popFromLogCatch("actor_cancelled").rethrown
    /\ ~popFromLogCatch("actor_cancelled").traced

\* One commit of a push was cancelled, another ended with a broken promise and a
\* third with tlog_stopped.
C17_Witness ==
    \E v \in DOMAIN commitReply : \E a, b, c \in DOMAIN commitReply[v] :
        /\ commitOutcome[v][a] = "actor_cancelled"
        /\ commitOutcome[v][b] = "broken_promise"
        /\ commitOutcome[v][c] = "tlog_stopped"

\* =====================================================================
\* onError
\* =====================================================================

OnErrorInit ==
    /\ \E n \in 0..MaxOnErrorLogs :
        /\ \E notPresent \in SUBSET (1..n) :
              logServers = [i \in 1..n |-> [present |-> i \notin notPresent]]
        /\ tLogWriteAntiQuorum \in 0..(IF n = 0 THEN 0 ELSE n - 1)
        /\ tLogReplicationFactor = n
    /\ epochEndVersion = {}
    /\ oldLogData = <<>>
    /\ PushIdle
    /\ PopIdle
    /\ peekCursor = {}
    /\ RecoveryIdle
    /\ AuxIdle

\* onError(): Never() without log servers; else one waitFailureClient per handle
\* that holds an interface now, the ASSERT, and the future of line 234.
OnError ==
    /\ onErrorFuture = "uncalled"
    /\ LET failed == {t \in DOMAIN logServers : logServers[t].present}
       IN  IF Len(logServers) = 0
           THEN onErrorFuture' = "never" /\ onErrorFailed' = {}
           ELSE IF failed = {}
           THEN onErrorFuture' = "internal_error" /\ onErrorFailed' = {}
           ELSE /\ onErrorFailed' = failed
                /\ onErrorFuture' = OnErrorResult("pending", FALSE, actorsResult)
    /\ UNCHANGED <<sysVars, pushVars, popVars, peekCursor, recVars, failureFired, rejoinVars, lockVars, epochVars>>

\* The waitFailureClient of slot t returns: quorum(failed, 1) is ready.
FailureClientFires(t) ==
    /\ t \in onErrorFailed \ failureFired
    /\ failureFired' = failureFired \cup {t}
    /\ onErrorFuture' = OnErrorResult(onErrorFuture, TRUE, actorsResult)
    /\ UNCHANGED <<sysVars, pushVars, popVars, peekCursor, recVars, onErrorFailed, rejoinVars, lockVars, epochVars>>

OnErrorNext ==
    \/ OnError
    \/ \E t \in DOMAIN logServers : FailureClientFires(t)
    \/ PushNext

SpecOnError == OnErrorInit /\ [][OnErrorNext]_vars

OnErrorCalled == onErrorFuture # "uncalled"

\* C16 as stated: once a failure client of onError has fired, the future has
\* failed with master_tlog_failed.
C16_FailureClientGivesMasterTLogFailed ==
    failureFired # {} => onErrorFuture = "master_tlog_failed"

\* C16: the first failure client to fire fails a pending onError future with
\* master_tlog_failed; once one has fired the future holds that error or the
\* error of the actor collection that failed it before; only handles present at
\* the call are watched; the future never completes normally and, without log
\* servers, never completes at all.
C16_FailureClientOrActorsFailOnError ==
    /\ [](/\ failureFired # {} =>
                \/ onErrorFuture = "master_tlog_failed"
                \/ onErrorFuture = actorsResult /\ actorsResult # "pending"
          /\ onErrorFuture \notin {"ready", "ok"}
          /\ failureFired \subseteq onErrorFailed
          /\ onErrorFailed \subseteq {t \in DOMAIN logServers : logServers[t].present}
          /\ (OnErrorCalled /\ Len(logServers) = 0) => onErrorFuture = "never"
          /\ (onErrorFuture = "pending") => (failureFired = {} /\ actorsResult = "pending"))
    /\ [][(failureFired' # failureFired /\ onErrorFuture = "pending")
             => onErrorFuture' = "master_tlog_failed"]_vars

\* One of two TLogs held no interface at the call; the failure client of the
\* other fired and failed the future while no actor had failed.
C16_Witness ==
    /\ \E t \in DOMAIN logServers : ~logServers[t].present
    /\ failureFired # {}
    /\ onErrorFuture = "master_tlog_failed"
    /\ actorsResult = "pending"

\* =====================================================================
\* trackRejoins
\* =====================================================================

\* The UIDs of rejoining TLogs: those of the handles (the slot numbers) and one
\* that no handle has.
RejoinUnknownUID == 0
RejoinOldUID == 9
RejoinUIDs(n) == (1..n) \cup {RejoinUnknownUID, RejoinOldUID}
RejoinEndpoints == {1, 2}

\* epochEnd, lines 560-574: allLogServers is handed the handles of the current epoch, then
\* those of the old epochs, most recent first.  The handles are shared with logServers and
\* oldLogData[i].logServers.
RECURSIVE allLogServers(_, _)
allLogServers(current, old) ==
    IF old = <<>> THEN current ELSE allLogServers(current \o Head(old).logServers, Tail(old))

\* The handle at position pos of allLogServers, when it lies in an old epoch, is set.
RECURSIVE SetOldHandle(_, _, _)
SetOldHandle(old, pos, value) ==
    IF old = <<>> THEN <<>>
    ELSE IF pos <= Len(Head(old).logServers)
    THEN <<[Head(old) EXCEPT !.logServers[pos] = value]>> \o Tail(old)
    ELSE <<Head(old)>> \o SetOldHandle(Tail(old), pos - Len(Head(old).logServers), value)

\* The search of trackRejoins: the first position whose handle has the UID, 0 for `pos == -1`.
TrackRejoinsPos(all, id) ==
    IF \E i \in DOMAIN all : all[i].id = id
    THEN CHOOSE i \in DOMAIN all : all[i].id = id /\ \A j \in DOMAIN all : all[j].id = id => i <= j
    ELSE 0

\* `!logServers[pos]->get().present() || req.myInterface.commit.getEndpoint() != ...`
TrackRejoinsSetsIfEmpty(handle, endpoint) == ~handle.present
TrackRejoinsSets(handle, endpoint) == ~handle.present \/ endpoint # handle.endpoint

\* The handle holding the interface of the request.
HandleOfInterface(id, endpoint) == [id |-> id, present |-> TRUE, endpoint |-> endpoint]

\* ReplyPromise<bool>::send on the i-th consumed request.
ReplySend(requests, i, value) ==
    [requests EXCEPT ![i].replies = Append(@, value)]

\* `lastReply[id].send(false)`: the promise kept for the UID, a fresh one nobody
\* waits on when the map has no entry yet.
LastReplySendFalse(requests, last, id) ==
    IF id \in DOMAIN last THEN ReplySend(requests, last[id], FALSE) ELSE requests

\* The catch block: `send(true)` on every promise kept in lastReply.
TrackRejoinsCatchWithoutReplies(requests, last) == requests
TrackRejoinsCatch(requests, last) ==
    [i \in DOMAIN requests |->
        IF i \in Range(last) THEN ReplySend(requests, i, TRUE)[i] ELSE requests[i]]

RejoinsInit ==
    /\ \E n \in 1..MaxRejoinLogs :
        /\ logServers = HandlesOfUIDs([i \in 1..n |-> i])
        /\ tLogReplicationFactor = n
    /\ tLogWriteAntiQuorum = 0
    /\ epochEndVersion = {}
    /\ \E oldTLogData \in {<<>>, <<InitialOldTLogData>>} :
          oldLogData = EpochEndOldLogData(oldTLogData)
    /\ PushIdle
    /\ PopIdle
    /\ peekCursor = {}
    /\ prevState = <<>>
    /\ tLogReply = <<>>
    /\ logFailed = <<>>
    /\ last_end = {}
    /\ outLogSystem = {}
    /\ resumed = FALSE
    /\ published = <<>>
    /\ epochEndPc = "changes"
    /\ rejoins = "running"
    /\ OnErrorIdle
    /\ RejoinIdle
    /\ EpochIdle
    /\ LockIdle

\* One turn of the loop of trackRejoins: the request of the TLog `id`, which
\* now listens at `endpoint`, is taken from the stream.
RejoinRequest(id, endpoint) ==
    /\ rejoins = "running"
    /\ Len(rejoinRequests) < MaxRejoinRequests
    /\ LET all == allLogServers(logServers, oldLogData)
           pos == TrackRejoinsPos(all, id)
           sets == pos # 0 /\ TrackRejoinsSets(all[pos], endpoint)
           req == [id |-> id, endpoint |-> endpoint, replies |-> <<>>,
                   setUnconditional |-> IF sets THEN pos ELSE 0]
       IN  IF pos # 0
           THEN /\ logServers' =
                       IF sets /\ pos <= Len(logServers)
                       THEN [logServers EXCEPT ![pos] = HandleOfInterface(id, endpoint)]
                       ELSE logServers
                /\ oldLogData' =
                       IF sets /\ pos > Len(logServers)
                       THEN SetOldHandle(oldLogData, pos - Len(logServers), HandleOfInterface(id, endpoint))
                       ELSE oldLogData
                /\ rejoinRequests' = Append(LastReplySendFalse(rejoinRequests, lastReply, id), req)
                /\ lastReply' = MapPut(lastReply, id, Len(rejoinRequests) + 1)
           ELSE /\ rejoinRequests' = ReplySend(Append(rejoinRequests, req), Len(rejoinRequests) + 1, TRUE)
                /\ UNCHANGED <<logServers, oldLogData, lastReply>>
    /\ UNCHANGED <<tLogWriteAntiQuorum, tLogReplicationFactor, epochEndVersion, pushVars,
                   popVars, peekCursor, prevState, tLogReply, logFailed, last_end, outLogSystem,
                   resumed, published, epochEndPc, rejoins, onErrorVars, epochVars, lockVars>>

\* The wait of trackRejoins throws (the actor is cancelled, stopRejoins() or the
\* owner going away, or the stream fails): the catch block runs and the actor ends.
TrackRejoinsExit ==
    /\ rejoins = "running"
    /\ rejoinRequests' = TrackRejoinsCatch(rejoinRequests, lastReply)
    /\ rejoins' = "done"
    /\ UNCHANGED <<sysVars, pushVars, popVars, peekCursor, prevState, tLogReply, logFailed, last_end,
                   outLogSystem, resumed, published, epochEndPc, lastReply, onErrorVars, epochVars, lockVars>>

RejoinsNext ==
    \/ \E id \in RejoinUIDs(Len(logServers)) : \E endpoint \in RejoinEndpoints :
           RejoinRequest(id, endpoint)
    \/ TrackRejoinsExit

SpecRejoins == RejoinsInit /\ [][RejoinsNext]_vars

RejoinPending(i) == rejoinRequests[i].replies = <<>>
RejoinLatest(i) ==
    \A j \in DOMAIN rejoinRequests : rejoinRequests[j].id = rejoinRequests[i].id => j <= i
RejoinKnown(i) == TrackRejoinsPos(allLogServers(logServers, oldLogData), rejoinRequests[i].id) # 0

\* C13: every consumed rejoin request has at most one reply; a request with an
\* unknown UID is answered true in the step that consumes it; a request is
\* answered false exactly when a later request of the same UID has been
\* consumed; while the tracker runs the pending requests are the latest of each
\* known UID, so at most one per UID; once the tracker has exited every
\* consumed request has exactly one reply, true for those pending at the exit.
C13_EveryRejoinRequestGetsOneReply ==
    /\ [](\A i \in DOMAIN rejoinRequests :
            /\ Len(rejoinRequests[i].replies) <= 1
            /\ ~RejoinKnown(i) => rejoinRequests[i].replies = <<TRUE>>
            /\ (RejoinKnown(i) /\ ~RejoinLatest(i)) => rejoinRequests[i].replies = <<FALSE>>
            /\ (RejoinKnown(i) /\ RejoinLatest(i) /\ rejoins = "running") => RejoinPending(i)
            /\ (RejoinKnown(i) /\ RejoinLatest(i) /\ rejoins = "done") =>
                   rejoinRequests[i].replies = <<TRUE>>)
    /\ [](\A i, j \in DOMAIN rejoinRequests :
            (RejoinPending(i) /\ RejoinPending(j) /\ rejoinRequests[i].id = rejoinRequests[j].id)
                => i = j)
    /\ [](rejoins = "done" => \A i \in DOMAIN rejoinRequests : Len(rejoinRequests[i].replies) = 1)

\* The tracker has exited after consuming two requests of one TLog and one of
\* an unknown TLog: the replies are false, true (at the exit) and true.
C13_Witness ==
    /\ rejoins = "done"
    /\ \E i, j, k \in DOMAIN rejoinRequests :
         /\ i < j
         /\ rejoinRequests[i].id = rejoinRequests[j].id
         /\ RejoinKnown(i)
         /\ rejoinRequests[i].replies = <<FALSE>>
         /\ rejoinRequests[j].replies = <<TRUE>>
         /\ ~RejoinKnown(k)

\* =====================================================================
\* newEpoch, toCoreState, coreStateWritten and the exported configuration
\* =====================================================================

\* waitForAll(futures) is quorum(futures, futures.size()).
waitForAll(futures) == quorum(futures, Len(futures))

\* transformErrors(throwErrorOr(getReplyUnlessFailedFor(...)), master_recovery_failed()):
\* the reply, or master_recovery_failed for a failure or a time-out.
transformErrorsUnchanged(outcome) == outcome
transformErrors(outcome) ==
    IF outcome.result = "failed" THEN [result |-> "master_recovery_failed"] ELSE outcome

\* newEpoch, lines 766-778: the old epochs of the new log system.
NewEpochOldLogDataAppended(old, handles) ==
    IF Len(handles) # 0
    THEN old.oldLogData \o
         <<[logServers |-> handles,
            tLogWriteAntiQuorum |-> old.tLogWriteAntiQuorum,
            tLogReplicationFactor |-> old.tLogReplicationFactor,
            tLogPolicy |-> old.tLogPolicy,
            tLogLocalities |-> old.tLogLocalities,
            epochEnd |-> old.knownCommittedVersion + 1]>>
    ELSE old.oldLogData
NewEpochOldLogData(old, handles) ==
    IF Len(handles) # 0
    THEN <<[logServers |-> handles,
            tLogWriteAntiQuorum |-> old.tLogWriteAntiQuorum,
            tLogReplicationFactor |-> old.tLogReplicationFactor,
            tLogPolicy |-> old.tLogPolicy,
            tLogLocalities |-> old.tLogLocalities,
            epochEnd |-> old.knownCommittedVersion + 1]>> \o old.oldLogData
    ELSE old.oldLogData

\* newEpoch, lines 813-816: slot i holds the interface of reply i and the locality of worker i.
NewEpochLogServersReversed(replies, workers) ==
    [i \in DOMAIN replies |->
        [id |-> replies[Len(replies) + 1 - i].interface, present |-> TRUE, locality |-> workers[i]]]
NewEpochLogServers(replies, workers) ==
    [i \in DOMAIN replies |-> [id |-> replies[i].interface, present |-> TRUE, locality |-> workers[i]]]

\* The log system newEpoch returns.
NewEpochLogSystem(old, handles, rec, replies) ==
    [ logSystemType          |-> 2,
      tLogReplicationFactor  |-> rec.tLogReplicationFactor,
      tLogWriteAntiQuorum    |-> rec.tLogWriteAntiQuorum,
      tLogPolicy             |-> rec.tLogPolicy,
      tLogLocalities         |-> rec.workers,
      logServers             |-> NewEpochLogServers(replies, rec.workers),
      oldLogData             |-> NewEpochOldLogData(old, handles),
      recoveryCompleteWrittenToCoreState |-> FALSE ]

\* toCoreState: throws the error of recoveryComplete, else fills in the DBCoreState, with the
\* old epochs unless recoveryComplete is ready.
toCoreStateOldAlways(ls, recoveryComplete) ==
    [threw |-> FALSE,
     state |-> [tLogs |-> [i \in DOMAIN ls.logServers |-> ls.logServers[i].id],
                oldTLogData |->
                    [i \in DOMAIN ls.oldLogData |->
                        [tLogs |-> [j \in DOMAIN ls.oldLogData[i].logServers |->
                                        ls.oldLogData[i].logServers[j].id],
                         tLogWriteAntiQuorum |-> ls.oldLogData[i].tLogWriteAntiQuorum,
                         tLogReplicationFactor |-> ls.oldLogData[i].tLogReplicationFactor,
                         tLogPolicy |-> ls.oldLogData[i].tLogPolicy,
                         tLogLocalities |-> ls.oldLogData[i].tLogLocalities,
                         epochEnd |-> ls.oldLogData[i].epochEnd]],
                tLogWriteAntiQuorum |-> ls.tLogWriteAntiQuorum,
                tLogReplicationFactor |-> ls.tLogReplicationFactor,
                tLogPolicy |-> ls.tLogPolicy,
                tLogLocalities |-> [i \in DOMAIN ls.logServers |-> ls.logServers[i].locality],
                logSystemType |-> ls.logSystemType]]
toCoreState(ls, recoveryComplete) ==
    IF recoveryComplete = "error"
    THEN [threw |-> TRUE, error |-> "master_recovery_failed"]
    ELSE [threw |-> FALSE,
          state |-> [tLogs |-> [i \in DOMAIN ls.logServers |-> ls.logServers[i].id],
                     oldTLogData |->
                         IF recoveryComplete # "ready"
                         THEN [i \in DOMAIN ls.oldLogData |->
                                 [tLogs |-> [j \in DOMAIN ls.oldLogData[i].logServers |->
                                                 ls.oldLogData[i].logServers[j].id],
                                  tLogWriteAntiQuorum |-> ls.oldLogData[i].tLogWriteAntiQuorum,
                                  tLogReplicationFactor |-> ls.oldLogData[i].tLogReplicationFactor,
                                  tLogPolicy |-> ls.oldLogData[i].tLogPolicy,
                                  tLogLocalities |-> ls.oldLogData[i].tLogLocalities,
                                  epochEnd |-> ls.oldLogData[i].epochEnd]]
                         ELSE <<>>,
                     tLogWriteAntiQuorum |-> ls.tLogWriteAntiQuorum,
                     tLogReplicationFactor |-> ls.tLogReplicationFactor,
                     tLogPolicy |-> ls.tLogPolicy,
                     tLogLocalities |-> [i \in DOMAIN ls.logServers |-> ls.logServers[i].locality],
                     logSystemType |-> ls.logSystemType]]

\* onCoreStateChanged: Never() if recoveryComplete is set already, else recoveryComplete.
onCoreStateChanged(recoveryComplete) ==
    IF recoveryComplete # "pending" THEN "never" ELSE "pending"

\* coreStateWritten: the new value of recoveryCompleteWrittenToCoreState.
coreStateWrittenAlways(written, newState) == TRUE
coreStateWritten(written, newState) ==
    IF Len(newState.oldTLogData) = 0 THEN TRUE ELSE written

\* getLogSystemConfig
getLogSystemConfigOldAlways(ls) ==
    [ logSystemType          |-> ls.logSystemType,
      tLogWriteAntiQuorum    |-> ls.tLogWriteAntiQuorum,
      tLogReplicationFactor  |-> ls.tLogReplicationFactor,
      tLogPolicy             |-> ls.tLogPolicy,
      tLogLocalities         |-> ls.tLogLocalities,
      tLogs                  |-> ls.logServers,
      oldTLogs               |->
          [i \in DOMAIN ls.oldLogData |->
              [tLogs |-> ls.oldLogData[i].logServers,
               tLogWriteAntiQuorum |-> ls.oldLogData[i].tLogWriteAntiQuorum,
               tLogReplicationFactor |-> ls.oldLogData[i].tLogReplicationFactor,
               tLogPolicy |-> ls.oldLogData[i].tLogPolicy,
               tLogLocalities |-> ls.oldLogData[i].tLogLocalities,
               epochEnd |-> ls.oldLogData[i].epochEnd]] ]
getLogSystemConfig(ls) ==
    [ logSystemType          |-> ls.logSystemType,
      tLogWriteAntiQuorum    |-> ls.tLogWriteAntiQuorum,
      tLogReplicationFactor  |-> ls.tLogReplicationFactor,
      tLogPolicy             |-> ls.tLogPolicy,
      tLogLocalities         |-> ls.tLogLocalities,
      tLogs                  |-> ls.logServers,
      oldTLogs               |->
          IF ~ls.recoveryCompleteWrittenToCoreState
          THEN [i \in DOMAIN ls.oldLogData |->
                  [tLogs |-> ls.oldLogData[i].logServers,
                   tLogWriteAntiQuorum |-> ls.oldLogData[i].tLogWriteAntiQuorum,
                   tLogReplicationFactor |-> ls.oldLogData[i].tLogReplicationFactor,
                   tLogPolicy |-> ls.oldLogData[i].tLogPolicy,
                   tLogLocalities |-> ls.oldLogData[i].tLogLocalities,
                   epochEnd |-> ls.oldLogData[i].epochEnd]]
          ELSE <<>> ]

\* The (UID, NetworkAddress) of a handle in getLogsValue: the address is that of the
\* interface, which is kept as the UID, or NetworkAddress() without one, kept as 0.
LogsValuePair(handle) == <<handle.id, IF handle.present THEN handle.id ELSE 0>>
RECURSIVE Flatten(_)
Flatten(ss) == IF ss = <<>> THEN <<>> ELSE Head(ss) \o Flatten(Tail(ss))

\* getLogsValue
getLogsValue(ls) ==
    [ logs    |-> [i \in DOMAIN ls.logServers |-> LogsValuePair(ls.logServers[i])],
      oldLogs |-> IF ~ls.recoveryCompleteWrittenToCoreState
                  THEN Flatten([i \in DOMAIN ls.oldLogData |->
                                   [j \in DOMAIN ls.oldLogData[i].logServers |->
                                       LogsValuePair(ls.oldLogData[i].logServers[j])]])
                  ELSE <<>> ]

\* fromLogSystemConfig
fromLogSystemConfigWithoutEpochEnd(lsConf) ==
    [ logSystemType          |-> lsConf.logSystemType,
      tLogReplicationFactor  |-> lsConf.tLogReplicationFactor,
      tLogWriteAntiQuorum    |-> lsConf.tLogWriteAntiQuorum,
      tLogPolicy             |-> lsConf.tLogPolicy,
      tLogLocalities         |-> lsConf.tLogLocalities,
      logServers             |-> lsConf.tLogs,
      oldLogData             |->
          [i \in DOMAIN lsConf.oldTLogs |->
              [logServers |-> lsConf.oldTLogs[i].tLogs,
               tLogWriteAntiQuorum |-> lsConf.oldTLogs[i].tLogWriteAntiQuorum,
               tLogReplicationFactor |-> lsConf.oldTLogs[i].tLogReplicationFactor,
               tLogPolicy |-> lsConf.oldTLogs[i].tLogPolicy,
               tLogLocalities |-> lsConf.oldTLogs[i].tLogLocalities,
               epochEnd |-> 0]],
      recoveryCompleteWrittenToCoreState |-> FALSE ]
fromLogSystemConfig(lsConf) ==
    [ logSystemType          |-> lsConf.logSystemType,
      tLogReplicationFactor  |-> lsConf.tLogReplicationFactor,
      tLogWriteAntiQuorum    |-> lsConf.tLogWriteAntiQuorum,
      tLogPolicy             |-> lsConf.tLogPolicy,
      tLogLocalities         |-> lsConf.tLogLocalities,
      logServers             |-> lsConf.tLogs,
      oldLogData             |->
          [i \in DOMAIN lsConf.oldTLogs |->
              [logServers |-> lsConf.oldTLogs[i].tLogs,
               tLogWriteAntiQuorum |-> lsConf.oldTLogs[i].tLogWriteAntiQuorum,
               tLogReplicationFactor |-> lsConf.oldTLogs[i].tLogReplicationFactor,
               tLogPolicy |-> lsConf.oldTLogs[i].tLogPolicy,
               tLogLocalities |-> lsConf.oldTLogs[i].tLogLocalities,
               epochEnd |-> lsConf.oldTLogs[i].epochEnd]],
      recoveryCompleteWrittenToCoreState |-> FALSE ]

\* A DBCoreState read as a LogSystemConfig: the same fields, each UID a handle content.
CoreStateAsConfig(state) ==
    [ logSystemType          |-> state.logSystemType,
      tLogWriteAntiQuorum    |-> state.tLogWriteAntiQuorum,
      tLogReplicationFactor  |-> state.tLogReplicationFactor,
      tLogPolicy             |-> state.tLogPolicy,
      tLogLocalities         |-> state.tLogLocalities,
      tLogs                  |-> HandlesOfUIDs(state.tLogs),
      oldTLogs               |->
          [i \in DOMAIN state.oldTLogData |->
              [tLogs |-> HandlesOfUIDs(state.oldTLogData[i].tLogs),
               tLogWriteAntiQuorum |-> state.oldTLogData[i].tLogWriteAntiQuorum,
               tLogReplicationFactor |-> state.oldTLogData[i].tLogReplicationFactor,
               tLogPolicy |-> state.oldTLogData[i].tLogPolicy,
               tLogLocalities |-> state.oldTLogData[i].tLogLocalities,
               epochEnd |-> state.oldTLogData[i].epochEnd]] ]

\* The DBCoreStates the first recovery starts from: none written yet (cold start), or an epoch
\* of n TLogs, with the epoch before it or after that one was dropped.
InitialCoreStates ==
    {[tLogs |-> <<>>, logSystemType |-> 0, tLogReplicationFactor |-> 0, tLogWriteAntiQuorum |-> 0,
      tLogPolicy |-> 0, tLogLocalities |-> <<>>, oldTLogData |-> <<>>]}
    \cup
    {[tLogs |-> [t \in 1..n |-> t], logSystemType |-> 2, tLogReplicationFactor |-> n,
      tLogWriteAntiQuorum |-> antiQuorum, tLogPolicy |-> n, tLogLocalities |-> [t \in 1..n |-> t],
      oldTLogData |-> old] :
        n \in 1..MaxEpochLogs, antiQuorum \in {0}, old \in {<<>>, <<InitialOldTLogData>>}}

\* What newEpoch may be called with: the workers' localities and the configuration.
Recruitments ==
    {[workers |-> [i \in 1..n |-> i], tLogReplicationFactor |-> R, tLogWriteAntiQuorum |-> antiQuorum,
      tLogPolicy |-> R] :
        n \in 1..MaxEpochLogs, R \in 1..MaxEpochLogs, antiQuorum \in 0..(MaxEpochLogs - 1)}
    \ {rec \in [workers : {[i \in 1..n |-> i] : n \in 1..MaxEpochLogs},
                 tLogReplicationFactor : 1..MaxEpochLogs,
                 tLogWriteAntiQuorum : 0..(MaxEpochLogs - 1),
                 tLogPolicy : 1..MaxEpochLogs] :
           \/ rec.tLogReplicationFactor > Len(rec.workers)
           \/ rec.tLogWriteAntiQuorum >= rec.tLogReplicationFactor}

\* The UID of the TLog worker i starts for the recovery number g.
RecruitedUID(g, i) == 10 * g + i

\* The knownCommittedVersion the TLogs of the recovered epoch were initialized with (line 790):
\* the epochEnd of the epoch before them is that version plus one (line 771).
InitializedKnownCommitted(state) ==
    IF Len(state.oldTLogData) # 0 THEN state.oldTLogData[1].epochEnd - 1 ELSE 0

\* The lock replies of a TLog that reports a knownCommittedVersion no lower than that.
EpochLockEnds == {100, 105}
EpochLockResults(t) ==
    {data \in LockResults(t) :
        /\ data.end \in EpochLockEnds
        /\ data.knownCommittedVersion >= InitializedKnownCommitted(prevState)}

\* recoveryComplete of the log system newEpoch returned.
recoveryComplete == waitForAll(recoveryFinished)

EpochsInit ==
    /\ prevState \in InitialCoreStates
    /\ logServers = HandlesOfUIDs(prevState.tLogs)
    /\ tLogWriteAntiQuorum = 0 /\ tLogReplicationFactor = 0
    /\ epochEndVersion = {} /\ oldLogData = <<>>
    /\ PushIdle /\ PopIdle /\ peekCursor = {}
    /\ tLogReply = <<>>
    /\ logFailed = <<>>
    /\ last_end = {}
    /\ outLogSystem = {}
    /\ resumed = FALSE
    /\ published = <<>>
    /\ epochEndPc = "start"
    /\ rejoins = "invalid"
    /\ OnErrorIdle
    /\ RejoinIdle
    /\ LockIdle
    /\ newEpochPc = "idle"
    /\ recruitment = <<>>
    /\ initializationReplies = <<>>
    /\ logSystem = {}
    /\ recoveryFinished = <<>>
    /\ coreState = {}
    /\ coreStateFuture = "uncalled"
    /\ persisted = {}
    /\ writtenWithoutOld = FALSE
    /\ generation = 1

\* epochEnd has run up to a publication: the log system it set into outLogSystem for the lock
\* replies it had then (SpecRecovery follows the loop event by event).
RecoverAndEndEpoch ==
    /\ newEpochPc = "idle"
    /\ outLogSystem = {}
    /\ IF Len(prevState.tLogs) = 0
       THEN /\ outLogSystem' = {NewDatabaseLogSystem(prevState)}
            /\ UNCHANGED <<logServers, tLogReply, logFailed>>
       ELSE \E reply \in [DOMAIN prevState.tLogs -> UNION {Opt(EpochLockResults(t)) : t \in DOMAIN prevState.tLogs}] :
              LET failed == [t \in DOMAIN prevState.tLogs |-> FALSE]
              IN  /\ \A t \in DOMAIN reply : reply[t] \in Opt(EpochLockResults(t))
                  /\ prevState.logSystemType = 2
                  /\ ~bTooManyFailures(reply, failed)
                  /\ outLogSystem' = {NewLogSystem(reply, failed)}
                  /\ tLogReply' = reply
                  /\ logFailed' = failed
                  /\ logServers' = [t \in DOMAIN logServers |->
                                       [logServers[t] EXCEPT !.present = (reply[t] # {})]]
    /\ UNCHANGED <<tLogWriteAntiQuorum, tLogReplicationFactor, epochEndVersion, oldLogData, pushVars,
                   popVars, peekCursor, prevState, last_end, resumed, published,
                   epochEndPc, rejoins, onErrorVars, rejoinVars, lockVars, epochVars>>

\* bestLocationFor() on the log system newEpoch builds, whose logServers were resized to the
\* number of workers (line 795); locations count from 1 here.
NewEpochBestLocationFirst(tag, size) == 1
NewEpochBestLocation(tag, size) == (tag % size) + 1

\* LocalitySet::selectReplicas(policy, alsoServers, results): the sets of further servers
\* that, with alsoServers, satisfy the policy, none of them with a server to spare.
selectReplicas(localities, policy, alsoServers) ==
    {extra \in SUBSET (DOMAIN localities \ alsoServers) :
        /\ validate(alsoServers \cup extra, localities, policy)
        /\ \A one \in extra : ~validate(alsoServers \cup (extra \ {one}), localities, policy)}

\* getPushLocations(vector<Tag>(1, tag), locations): the locations it may give.
getPushLocations(tag, localities, policy) ==
    LET best == NewEpochBestLocation(tag, Len(localities))
    IN  {{best} \cup extra : extra \in selectReplicas(localities, policy, {best})}

\* Lines 800-806: reqs[loc].recoverTags for the locations chosen per epoch-end tag.
NewEpochRecoverTags(workers, locations) ==
    [i \in DOMAIN workers |-> {tag \in DOMAIN locations : i \in locations[tag]}]

\* newEpoch(oldLogSystem, workers, configuration, ...) up to its wait for the initialization replies.
NewEpoch(rec) ==
    /\ newEpochPc = "idle"
    /\ outLogSystem # {}
    /\ newEpochPc' = "waiting"
    /\ \E locations \in [Get(outLogSystem).epochEndTags -> SUBSET DOMAIN rec.workers] :
          /\ \A tag \in DOMAIN locations :
                locations[tag] \in getPushLocations(tag, rec.workers, rec.tLogPolicy)
          /\ recruitment' = [workers |-> rec.workers,
                             tLogReplicationFactor |-> rec.tLogReplicationFactor,
                             tLogWriteAntiQuorum |-> rec.tLogWriteAntiQuorum,
                             tLogPolicy |-> rec.tLogPolicy,
                             locations |-> locations,
                             recoverTags |-> NewEpochRecoverTags(rec.workers, locations)]
    /\ initializationReplies' = [i \in DOMAIN rec.workers |-> [result |-> "pending"]]
    /\ UNCHANGED <<sysVars, pushVars, popVars, peekCursor, recVars, onErrorVars, rejoinVars, lockVars,
                   logSystem, recoveryFinished, coreState, coreStateFuture, persisted,
                   writtenWithoutOld, generation>>

\* Worker i answers its InitializeTLogRequest, or fails or times out.  waitForAll fires when
\* this was the last reply or the first failure, and newEpoch runs to its end: it returns the
\* log system with the recoveryFinished requests sent, or throws.
InitializeReply(i, outcome) ==
    /\ newEpochPc = "waiting"
    /\ i \in DOMAIN initializationReplies
    /\ initializationReplies[i].result = "pending"
    /\ LET replies == [initializationReplies EXCEPT ![i] = transformErrors(outcome)]
           all == waitForAll([j \in DOMAIN replies |-> replies[j].result])
       IN  /\ initializationReplies' = replies
           /\ IF all = "ready"
              THEN /\ newEpochPc' = "returned"
                   /\ logSystem' = {NewEpochLogSystem(Get(outLogSystem), logServers, recruitment, replies)}
                   /\ recoveryFinished' = [j \in DOMAIN replies |-> "pending"]
              ELSE /\ newEpochPc' = IF all = "error" THEN replies[i].result ELSE "waiting"
                   /\ UNCHANGED <<logSystem, recoveryFinished>>
    /\ UNCHANGED <<sysVars, pushVars, popVars, peekCursor, recVars, onErrorVars, rejoinVars, lockVars,
                   recruitment, coreState, coreStateFuture, persisted, writtenWithoutOld, generation>>

InitializeOk ==
    \E i \in DOMAIN initializationReplies : InitializeReply(i, [result |-> "ok", interface |-> RecruitedUID(generation, i)])
InitializeFailed ==
    \E i \in DOMAIN initializationReplies : InitializeReply(i, [result |-> "failed"])

\* TLog i of the new epoch answers TLogRecoveryFinishedRequest, or fails or times out, while
\* recoveryComplete still waits; a future onCoreStateChanged returned follows recoveryComplete.
RecoveryFinishedReply(i, outcome) ==
    /\ newEpochPc = "returned"
    /\ i \in DOMAIN recoveryFinished
    /\ recoveryComplete = "pending"
    /\ recoveryFinished[i] = "pending"
    /\ recoveryFinished' = [recoveryFinished EXCEPT ![i] = transformErrors([result |-> outcome]).result]
    /\ coreStateFuture' = IF coreStateFuture = "pending" THEN recoveryComplete' ELSE coreStateFuture
    /\ UNCHANGED <<sysVars, pushVars, popVars, peekCursor, recVars, onErrorVars, rejoinVars, lockVars,
                   newEpochPc, recruitment, initializationReplies, logSystem, coreState, persisted,
                   writtenWithoutOld, generation>>

RecoveryFinishedOk == \E i \in DOMAIN recoveryFinished : RecoveryFinishedReply(i, "ok")
RecoveryFinishedFailed == \E i \in DOMAIN recoveryFinished : RecoveryFinishedReply(i, "failed")

\* toCoreState(newState) on the log system newEpoch returned; it also rewrites tLogLocalities
\* from the interfaces the handles hold.
ToCoreState ==
    /\ logSystem # {}
    /\ LET ls == Get(logSystem)
           res == toCoreState(ls, recoveryComplete)
       IN  /\ coreState' = {res}
           /\ logSystem' = IF res.threw THEN logSystem
                           ELSE {[ls EXCEPT !.tLogLocalities = res.state.tLogLocalities]}
    /\ UNCHANGED <<sysVars, pushVars, popVars, peekCursor, recVars, onErrorVars, rejoinVars, lockVars,
                   newEpochPc, recruitment, initializationReplies, recoveryFinished,
                   coreStateFuture, persisted, writtenWithoutOld, generation>>

\* onCoreStateChanged() on the log system newEpoch returned.
OnCoreStateChanged ==
    /\ logSystem # {}
    /\ coreStateFuture' = onCoreStateChanged(recoveryComplete)
    /\ coreStateFuture' # coreStateFuture
    /\ UNCHANGED <<sysVars, pushVars, popVars, peekCursor, recVars, onErrorVars, rejoinVars, lockVars,
                   newEpochPc, recruitment, initializationReplies, logSystem, recoveryFinished,
                   coreState, persisted, writtenWithoutOld, generation>>

\* The master has written the DBCoreState toCoreState gave it and calls coreStateWritten.
CoreStateWritten ==
    /\ logSystem # {}
    /\ coreState # {}
    /\ ~Get(coreState).threw
    /\ LET newState == Get(coreState).state
           ls == Get(logSystem)
       IN  /\ logSystem' = {[ls EXCEPT !.recoveryCompleteWrittenToCoreState =
                                coreStateWritten(ls.recoveryCompleteWrittenToCoreState, newState)]}
           /\ persisted' = {newState}
           /\ writtenWithoutOld' = (writtenWithoutOld \/ Len(newState.oldTLogData) = 0)
    /\ logSystem' # logSystem \/ persisted' # persisted
    /\ UNCHANGED <<sysVars, pushVars, popVars, peekCursor, recVars, onErrorVars, rejoinVars, lockVars,
                   newEpochPc, recruitment, initializationReplies, recoveryFinished, coreState,
                   coreStateFuture, generation>>

\* The master is replaced: the next one reads the DBCoreState last written and recovers from it.
NextRecovery ==
    /\ generation < MaxGenerations
    /\ persisted # {}
    /\ prevState' = Get(persisted)
    /\ logServers' = HandlesOfUIDs(prevState'.tLogs)
    /\ outLogSystem' = {}
    /\ newEpochPc' = "idle"
    /\ recruitment' = <<>>
    /\ initializationReplies' = <<>>
    /\ logSystem' = {}
    /\ recoveryFinished' = <<>>
    /\ coreState' = {}
    /\ coreStateFuture' = "uncalled"
    /\ persisted' = {}
    /\ writtenWithoutOld' = FALSE
    /\ generation' = generation + 1
    /\ tLogReply' = <<>>
    /\ logFailed' = <<>>
    /\ UNCHANGED <<tLogWriteAntiQuorum, tLogReplicationFactor, epochEndVersion, oldLogData, pushVars,
                   popVars, peekCursor, last_end, resumed, published,
                   epochEndPc, rejoins, onErrorVars, rejoinVars, lockVars>>

EpochsNext ==
    \/ RecoverAndEndEpoch
    \/ \E rec \in Recruitments : NewEpoch(rec)
    \/ InitializeOk
    \/ InitializeFailed
    \/ RecoveryFinishedOk
    \/ RecoveryFinishedFailed
    \/ ToCoreState
    \/ OnCoreStateChanged
    \/ CoreStateWritten
    \/ NextRecovery

SpecEpochs == EpochsInit /\ [][EpochsNext]_vars

InitializeFailures ==
    {i \in DOMAIN initializationReplies : initializationReplies[i].result \notin {"pending", "ok"}}

\* C12: newEpoch has returned a log system only in states where every worker
\* has answered its initialize request, and slot i of the log system holds the
\* interface worker i returned; once one request has failed or timed out
\* newEpoch has failed with master_recovery_failed and no log system exists,
\* however many of the others answered.
C12_NewEpochNeedsEveryInitializeReply ==
    /\ newEpochPc = "returned" =>
         /\ logSystem # {}
         /\ \A i \in DOMAIN initializationReplies : initializationReplies[i].result = "ok"
         /\ DOMAIN Get(logSystem).logServers = DOMAIN initializationReplies
         /\ \A i \in DOMAIN initializationReplies :
                /\ Get(logSystem).logServers[i].present
                /\ Get(logSystem).logServers[i].id = initializationReplies[i].interface
    /\ InitializeFailures # {} => (newEpochPc = "master_recovery_failed" /\ logSystem = {})
    /\ newEpochPc # "returned" => logSystem = {}
    /\ newEpochPc \in {"idle", "waiting", "returned", "master_recovery_failed"}

\* newEpoch returned a log system of two TLogs.
C12_Witness ==
    /\ newEpochPc = "returned"
    /\ Len(Get(logSystem).logServers) = 2
    /\ Get(logSystem).logServers[1].id # Get(logSystem).logServers[2].id

\* The old epochs of a log system as a DBCoreState holds them.
CoreOldTLogData(ls) ==
    [i \in DOMAIN ls.oldLogData |->
        [tLogs |-> [j \in DOMAIN ls.oldLogData[i].logServers |-> ls.oldLogData[i].logServers[j].id],
         tLogWriteAntiQuorum |-> ls.oldLogData[i].tLogWriteAntiQuorum,
         tLogReplicationFactor |-> ls.oldLogData[i].tLogReplicationFactor,
         tLogPolicy |-> ls.oldLogData[i].tLogPolicy,
         tLogLocalities |-> ls.oldLogData[i].tLogLocalities,
         epochEnd |-> ls.oldLogData[i].epochEnd]]

AllRecoveryFinished == \A i \in DOMAIN recoveryFinished : recoveryFinished[i] = "ok"
SomeRecoveryFinishedFailed ==
    \E i \in DOMAIN recoveryFinished : recoveryFinished[i] = "master_recovery_failed"
ToCoreStateStep == coreState' # coreState /\ coreState' # {}

\* C20: the future of onCoreStateChanged is ready only when every TLog of the
\* new epoch has acknowledged recoveryFinished; a toCoreState call made while
\* some acknowledgement is outstanding and none has failed gives a state with
\* all the old epochs, one made after all have arrived gives a state without
\* old epochs, and one made after a recoveryFinished request failed throws
\* master_recovery_failed and gives no state.
C20_CoreStateFollowsRecoveryComplete ==
    /\ [](coreStateFuture = "ready" => (logSystem # {} /\ AllRecoveryFinished))
    /\ [][ToCoreStateStep =>
            LET res == Get(coreState')
            IN  /\ SomeRecoveryFinishedFailed =>
                       (res.threw /\ res.error = "master_recovery_failed")
                /\ (~SomeRecoveryFinishedFailed /\ ~AllRecoveryFinished) =>
                       (~res.threw /\ res.state.oldTLogData = CoreOldTLogData(Get(logSystem)))
                /\ AllRecoveryFinished =>
                       (~res.threw /\ res.state.oldTLogData = <<>>)]_vars

\* onCoreStateChanged was called while recovery was unfinished and its future
\* is now ready; the toCoreState call made since gave a state without the old
\* epochs the log system still has.
C20_Witness ==
    /\ coreStateFuture = "ready"
    /\ coreState # {}
    /\ ~Get(coreState).threw
    /\ Get(coreState).state.oldTLogData = <<>>
    /\ Len(Get(logSystem).oldLogData) = 2

\* The old epochs of a log system as a LogSystemConfig holds them.
ConfigOldTLogs(ls) ==
    [i \in DOMAIN ls.oldLogData |->
        [tLogs |-> ls.oldLogData[i].logServers,
         tLogWriteAntiQuorum |-> ls.oldLogData[i].tLogWriteAntiQuorum,
         tLogReplicationFactor |-> ls.oldLogData[i].tLogReplicationFactor,
         tLogPolicy |-> ls.oldLogData[i].tLogPolicy,
         tLogLocalities |-> ls.oldLogData[i].tLogLocalities,
         epochEnd |-> ls.oldLogData[i].epochEnd]]
OldLogsValue(ls) ==
    Flatten([i \in DOMAIN ls.oldLogData |->
                [j \in DOMAIN ls.oldLogData[i].logServers |->
                    LogsValuePair(ls.oldLogData[i].logServers[j])]])
CoreStateWrittenStep == persisted' # persisted /\ persisted' # {}

\* C15: while coreStateWritten has not been called with a state without
\* oldTLogData, getLogSystemConfig and getLogsValue hold every old epoch of the
\* log system; after such a call both hold none; a coreStateWritten call with
\* a state that has oldTLogData leaves the log system as it was; and
\* recoveryCompleteWrittenToCoreState, once true, stays true.
C15_OldDataExportedUntilWrittenWithoutIt ==
    /\ [](logSystem # {} =>
            LET ls == Get(logSystem)
            IN  /\ ls.recoveryCompleteWrittenToCoreState = writtenWithoutOld
                /\ ~writtenWithoutOld =>
                       /\ getLogSystemConfig(ls).oldTLogs = ConfigOldTLogs(ls)
                       /\ getLogsValue(ls).oldLogs = OldLogsValue(ls)
                /\ writtenWithoutOld =>
                       /\ getLogSystemConfig(ls).oldTLogs = <<>>
                       /\ getLogsValue(ls).oldLogs = <<>>)
    /\ [][(CoreStateWrittenStep /\ Len(Get(persisted').oldTLogData) # 0) => logSystem' = logSystem]_vars
    /\ [][(logSystem # {} /\ logSystem' # {} /\ Get(logSystem).recoveryCompleteWrittenToCoreState)
             => Get(logSystem').recoveryCompleteWrittenToCoreState]_vars

\* A log system with two old epochs after coreStateWritten was called first
\* with a state holding them and then with one without: the flag is set and
\* the exports have dropped the old TLogs.
C15_Witness ==
    /\ logSystem # {}
    /\ Len(Get(logSystem).oldLogData) = 2
    /\ writtenWithoutOld
    /\ Get(logSystem).recoveryCompleteWrittenToCoreState
    /\ getLogSystemConfig(Get(logSystem)).oldTLogs = <<>>
    /\ OldLogsValue(Get(logSystem)) # <<>>

\* What the statement compares: the ordered TLog ids, replication factor,
\* anti-quorum, policy and localities of the current epoch and of each old
\* epoch, with its epochEnd.
Structure(ls) ==
    [ tLogs                  |-> [i \in DOMAIN ls.logServers |-> ls.logServers[i].id],
      tLogReplicationFactor  |-> ls.tLogReplicationFactor,
      tLogWriteAntiQuorum    |-> ls.tLogWriteAntiQuorum,
      tLogPolicy             |-> ls.tLogPolicy,
      tLogLocalities         |-> ls.tLogLocalities,
      oldLogData             |->
          [i \in DOMAIN ls.oldLogData |->
              [tLogs |-> [j \in DOMAIN ls.oldLogData[i].logServers |-> ls.oldLogData[i].logServers[j].id],
               tLogReplicationFactor |-> ls.oldLogData[i].tLogReplicationFactor,
               tLogWriteAntiQuorum |-> ls.oldLogData[i].tLogWriteAntiQuorum,
               tLogPolicy |-> ls.oldLogData[i].tLogPolicy,
               tLogLocalities |-> ls.oldLogData[i].tLogLocalities,
               epochEnd |-> ls.oldLogData[i].epochEnd]] ]

\* The log system epochEnd published, with its handles.
FrozenLogSystems ==
    {[ logSystemType          |-> old.logSystemType,
       tLogReplicationFactor  |-> old.tLogReplicationFactor,
       tLogWriteAntiQuorum    |-> old.tLogWriteAntiQuorum,
       tLogPolicy             |-> old.tLogPolicy,
       tLogLocalities         |-> old.tLogLocalities,
       logServers             |-> logServers,
       oldLogData             |-> old.oldLogData,
       recoveryCompleteWrittenToCoreState |-> FALSE ] : old \in outLogSystem}

ViaLogSystemConfig(ls) == fromLogSystemConfig(getLogSystemConfig(ls))
ViaCoreState(ls) ==
    fromLogSystemConfig(CoreStateAsConfig(toCoreState(ls, recoveryComplete).state))

\* C18 as stated: for every log system whose recovery is not yet written, the
\* log system rebuilt from getLogSystemConfig and the one rebuilt from
\* toCoreState (when it gives a state) have the structure of the original.
C18_RoundTripWhileNotWritten ==
    /\ \A ls \in logSystem \cup FrozenLogSystems :
         ~ls.recoveryCompleteWrittenToCoreState =>
             Structure(ViaLogSystemConfig(ls)) = Structure(ls)
    /\ \A ls \in logSystem :
         (~ls.recoveryCompleteWrittenToCoreState /\ ~toCoreState(ls, recoveryComplete).threw) =>
             Structure(ViaCoreState(ls)) = Structure(ls)

\* C18: a log system rebuilt from getLogSystemConfig has the structure of the
\* original while recoveryCompleteWrittenToCoreState is false; one rebuilt
\* from the state toCoreState gives has it while recoveryComplete is pending;
\* once recoveryComplete is ready toCoreState gives the current epoch alone,
\* written or not, and once it has failed toCoreState gives nothing.
C18_RoundTripWhileRecoveryIncomplete ==
    /\ \A ls \in logSystem \cup FrozenLogSystems :
         ~ls.recoveryCompleteWrittenToCoreState =>
             Structure(ViaLogSystemConfig(ls)) = Structure(ls)
    /\ \A ls \in logSystem :
         /\ recoveryComplete = "pending" =>
                /\ ~toCoreState(ls, recoveryComplete).threw
                /\ Structure(ViaCoreState(ls)) = Structure(ls)
         /\ recoveryComplete = "ready" =>
                /\ ~toCoreState(ls, recoveryComplete).threw
                /\ Structure(ViaCoreState(ls)) = [Structure(ls) EXCEPT !.oldLogData = <<>>]
         /\ recoveryComplete = "error" => toCoreState(ls, recoveryComplete).threw

\* A log system of two TLogs with two old epochs, its recovery pending and
\* not written, after a toCoreState call.
C18_Witness ==
    /\ logSystem # {}
    /\ coreState # {}
    /\ recoveryComplete = "pending"
    /\ ~Get(logSystem).recoveryCompleteWrittenToCoreState
    /\ Len(Get(logSystem).logServers) = 2
    /\ Len(Get(logSystem).oldLogData) = 2
    /\ Structure(ViaCoreState(Get(logSystem))) = Structure(Get(logSystem))

NonIncreasingEpochEnds(old) ==
    \A i \in DOMAIN old : \A j \in DOMAIN old : i < j => old[j].epochEnd <= old[i].epochEnd

NewestOldEpoch(old, handles) ==
    [logServers |-> handles,
     tLogWriteAntiQuorum |-> old.tLogWriteAntiQuorum,
     tLogReplicationFactor |-> old.tLogReplicationFactor,
     tLogPolicy |-> old.tLogPolicy,
     tLogLocalities |-> old.tLogLocalities,
     epochEnd |-> old.knownCommittedVersion + 1]

\* C11 as stated: the old epochs of the log system newEpoch returned are the
\* entry of the recovered epoch (its handles, epochEnd = its
\* knownCommittedVersion + 1) followed by the recovered log system's old
\* epochs, and their epochEnds do not increase from most recent to oldest.
C11_OldEpochsAreRecoveredEpochThenOlder ==
    logSystem # {} =>
        /\ Get(logSystem).oldLogData =
               <<NewestOldEpoch(Get(outLogSystem), logServers)>> \o Get(outLogSystem).oldLogData
        /\ NonIncreasingEpochEnds(Get(logSystem).oldLogData)

\* C11: when the recovered log system has log servers, the old epochs of the
\* log system newEpoch returned are the entry of the recovered epoch (its
\* handles, epochEnd = its knownCommittedVersion + 1) followed by the recovered
\* log system's old epochs; when it has none (cold start) they are the
\* recovered log system's old epochs alone; in both cases the epochEnds do not
\* increase from most recent to oldest.
C11_OldEpochsAreRecoveredEpochIfAnyThenOlder ==
    logSystem # {} =>
        /\ Len(logServers) # 0 =>
               Get(logSystem).oldLogData =
                   <<NewestOldEpoch(Get(outLogSystem), logServers)>> \o Get(outLogSystem).oldLogData
        /\ Len(logServers) = 0 => Get(logSystem).oldLogData = Get(outLogSystem).oldLogData
        /\ NonIncreasingEpochEnds(Get(logSystem).oldLogData)

\* The second recovery in a row, from a state written before the first one's
\* recovery was complete: three old epochs, the newest ending later than the
\* one before it.
C11_Witness ==
    /\ logSystem # {}
    /\ generation = 2
    /\ Len(Get(logSystem).oldLogData) = 3
    /\ Get(logSystem).oldLogData[2].epochEnd < Get(logSystem).oldLogData[1].epochEnd
    /\ Get(logSystem).oldLogData[3].epochEnd < Get(logSystem).oldLogData[2].epochEnd

\* ---------------------------------------------------------------------
\* pop(): calls before the wake-up of popFromLog
\* ---------------------------------------------------------------------

\* The popFromLog actor of key k leaves its delay(1.0) in this step.
PopWakeUp(k) ==
    /\ Len(popTasks[k]) = 1
    /\ popTasks[k][1].pc = "delay"
    /\ popTasks'[k] # popTasks[k]

\* The largest version pop() was called with for key k before the first wake-up of its actor.
PopLargestArrived(k) == MaxOf(Range(popArrived[k]))

\* The wake-up of the actor of key k is its first.
PopFirstWakeUp(k) == PopNotWokenYet(popTasks[k])

\* The step sends exactly one TLogPopRequest for key k, carrying the largest version.
PopOneRpcWithLargest(k) ==
    popRpcs'[k] = Append(popRpcs[k], [upTo |-> PopLargestArrived(k), task |-> popTasks[k][1].id])

PopExitStep(k) == Len(popTasks'[k]) < Len(popTasks[k])

\* The actor of key k returned because its pop RPC failed with an error other than cancellation.
PopErrorExit(k) == popExit[k] = "error"

\* A step that ends the actor of key k by the error return leaves the actors and keys of the others alone.
PopOthersUnaffected(k) ==
    \A other \in PopKeys \ {k} :
        /\ popTasks'[other] = popTasks[other]
        /\ popRpcs'[other] = popRpcs[other]
        /\ MapGet(outstandingPops', other) = MapGet(outstandingPops, other)

RejoinStep == Len(rejoinRequests') = Len(rejoinRequests) + 1

\* The positions of allLogServers whose handle has the UID.
RejoinMatches(all, id) == {i \in DOMAIN all : all[i].id = id}

\* The positions of allLogServers whose handle differs between the two lists.
HandlesChanged(before, after) == {i \in DOMAIN before : after[i] # before[i]}

\* C23: consuming a rejoin request changes at most one handle, the first of
\* allLogServers (current epoch, then the old epochs) that has the UID of the
\* request; setUnconditional is called on it, with the interface of the
\* request, if and only if it held no interface or one with another commit
\* endpoint, and otherwise the handle is left as it was and not notified; a
\* request whose UID no handle has changes and notifies no handle.
C23_RejoinSetsFirstMatchingHandleIfNew ==
    [][RejoinStep =>
        LET req == rejoinRequests'[Len(rejoinRequests')]
            before == allLogServers(logServers, oldLogData)
            after == allLogServers(logServers', oldLogData')
            matches == RejoinMatches(before, req.id)
            changed == HandlesChanged(before, after)
        IN  /\ Len(after) = Len(before)
            /\ Cardinality(changed) <= 1
            /\ matches = {} => (changed = {} /\ req.setUnconditional = 0)
            /\ matches # {} =>
                 LET first == CHOOSE i \in matches : \A j \in matches : i <= j
                 IN  /\ changed \subseteq {first}
                     /\ req.setUnconditional \in {0, first}
                     /\ (req.setUnconditional = first) <=>
                            (~before[first].present \/ before[first].endpoint # req.endpoint)
                     /\ req.setUnconditional = first =>
                            after[first] = HandleOfInterface(req.id, req.endpoint)
                     /\ req.setUnconditional = 0 => after[first] = before[first]]_vars

\* A TLog of the current epoch rejoined twice from the same endpoint, which set
\* its handle once, and a TLog of the old epoch rejoined, which set the handle
\* after those of the current epoch.
C23_Witness ==
    /\ Len(rejoinRequests) = 3
    /\ rejoinRequests[1].id = 1 /\ rejoinRequests[1].setUnconditional = 1
    /\ rejoinRequests[2].id = 1 /\ rejoinRequests[2].setUnconditional = 0
    /\ rejoinRequests[3].id = RejoinOldUID
    /\ rejoinRequests[3].setUnconditional = Len(logServers) + 1
    /\ oldLogData[1].logServers[1].present
    /\ Len(logServers) = 2 /\ ~logServers[2].present

\* ---------------------------------------------------------------------
\* push and onError: commits that end after the quorum
\* ---------------------------------------------------------------------

\* The commit of version v to location loc ends in this step with a broken promise or tlog_stopped.
CommitFailsNow(v, loc) ==
    /\ commitOutcome[v][loc] = "pending"
    /\ commitOutcome'[v][loc] \in {"broken_promise", "tlog_stopped"}

\* The error a commit that ended with `outcome` fails the actor collection with.
CommitError(outcome) == IF outcome = "broken_promise" THEN "master_tlog_failed" ELSE outcome

\* C24: a push that has reported success leaves its other commits outstanding;
\* when one of them then ends with a broken promise (or tlog_stopped), the push
\* stays successful, the actor collection fails with master_tlog_failed (resp.
\* tlog_stopped) unless it had failed before, and so does a pending future of
\* onError; a future of onError is never pending while the collection has
\* failed; all this with no more TLogs failed than the anti-quorum.
C24_LateCommitFailureFailsOnError ==
    /\ [][\A v \in DOMAIN commitReply : \A loc \in DOMAIN commitReply[v] :
            /\ (pushFuture[v] # "ready" /\ pushFuture'[v] = "ready")
                  => \A other \in DOMAIN commitReply[v] :
                        commitOutcome[v][other] = "pending" /\ commitOutcome'[v][other] # "pending"
                            => commitOutcome'[v][other] = "ok"
            /\ (pushFuture[v] = "ready" /\ CommitFailsNow(v, loc))
                  => /\ pushFuture'[v] = "ready"
                     /\ actorsResult = "pending"
                            => actorsResult' = CommitError(commitOutcome'[v][loc])
                     /\ onErrorFuture = "pending"
                            => onErrorFuture' = CommitError(commitOutcome'[v][loc])
                     /\ onErrorFuture # "pending" => onErrorFuture' = onErrorFuture
                     /\ actorsResult' # "pending"]_vars
    /\ [](actorsResult # "pending" => onErrorFuture # "pending")

\* With two TLogs and an anti-quorum of one, a push has succeeded, its other
\* commit has ended with tlog_stopped, and the future of onError has failed
\* with tlog_stopped although no failure client has fired.
C24_Witness ==
    /\ Len(logServers) = 2
    /\ tLogWriteAntiQuorum = 1
    /\ failureFired = {}
    /\ onErrorFuture = "tlog_stopped"
    /\ \E v \in DOMAIN pushFuture :
          /\ pushFuture[v] = "ready"
          /\ \E loc \in DOMAIN commitOutcome[v] : commitOutcome[v][loc] = "tlog_stopped"
          /\ Cardinality(NotAcked(v)) <= tLogWriteAntiQuorum

\* ---------------------------------------------------------------------
\* epochEnd and newEpoch: the tags to recover
\* ---------------------------------------------------------------------

\* The step sets a log system into outLogSystem.
OutLogSystemSet == outLogSystem' # outLogSystem /\ outLogSystem' # {}

\* The step is newEpoch building its InitializeTLogRequests.
NewEpochStep == newEpochPc = "idle" /\ newEpochPc' = "waiting"

\* C25: every tag in the lock reply of a TLog that is responsive when a log
\* system is published is in the epochEndTags of that log system; newEpoch
\* gives every tag of the epochEndTags of the log system it recovers from to
\* every worker of the push locations of the tag over the new workers, which
\* hold the worker at tag mod the number of workers and satisfy the new
\* policy, and to no other worker; so every such tag is in the recoverTags of
\* some worker, and no other tag is in any.
C25_EpochEndTagsAreRecovered ==
    /\ [][OutLogSystemSet =>
            \A t \in Responsive(tLogReply', logFailed') :
                Get(tLogReply'[t]).tags \subseteq Get(outLogSystem').epochEndTags]_vars
    /\ [][NewEpochStep =>
            LET tags == Get(outLogSystem).epochEndTags
                workers == DOMAIN recruitment'.workers
                size == Len(recruitment'.workers)
            IN  /\ DOMAIN recruitment'.locations = tags
                /\ \A tag \in tags :
                      /\ (tag % size) + 1 \in recruitment'.locations[tag]
                      /\ recruitment'.locations[tag] \subseteq workers
                      /\ Cardinality({recruitment'.workers[i] : i \in recruitment'.locations[tag]})
                             >= recruitment'.tLogPolicy
                      /\ \A i \in workers :
                            tag \in recruitment'.recoverTags[i] <=> i \in recruitment'.locations[tag]
                      /\ \E i \in workers : tag \in recruitment'.recoverTags[i]
                /\ \A i \in workers : recruitment'.recoverTags[i] \subseteq tags]_vars

\* Two TLogs reported the tags 0 and 1 and both are among the epochEndTags;
\* newEpoch with two workers and a policy of two gave both tags to both workers.
C25_Witness ==
    /\ newEpochPc = "waiting"
    /\ Len(recruitment.workers) = 2
    /\ recruitment.tLogPolicy = 2
    /\ Cardinality(Responsive(tLogReply, logFailed)) = 2
    /\ Get(outLogSystem).epochEndTags = {0, 1}
    /\ recruitment.recoverTags = <<{0, 1}, {0, 1}>>

\* ---------------------------------------------------------------- lockTLog and monitorLog
\* epochEnd, lines 556-584, starts one monitorLog and one lockTLog actor for every TLog of the
\* recovered epoch, and trackRejoins over their handles.  The actors of one TLog are followed
\* here with the identity of the interface the handle holds: the endpoint.

\* The lock results a TLog answers with.
LockReplies(t) == {data \in LockResults(t) : data.knownCommittedVersion = 90 /\ data.end >= 103}

\* The disabled variant keeps waiting on the request it has.
lockTLogRequestKept(handle, previous) ==
    IF previous # {} THEN previous
    ELSE IF handle.present THEN {[to |-> handle.endpoint, state |-> "waiting"]} ELSE {}
\* lockTLog, lines 863-870, one turn of the loop: the future waited on is the reply of a
\* request to the interface the handle holds now, Never() without an interface; the future of
\* the turn before is dropped.
lockTLogRequest(handle, previous) ==
    IF handle.present THEN {[to |-> handle.endpoint, state |-> "waiting"]} ELSE {}

\* The disabled variant keeps the tracker it has started.
monitorLogTrackerKept(handle, previous) ==
    IF previous # 0 THEN previous ELSE IF handle.present THEN handle.endpoint ELSE 0
\* monitorLog, lines 511-514: with an interface, waitFailure is assigned a new
\* waitFailureTracker on it, which cancels the one before; without, waitFailure is kept.
monitorLogTracker(handle, previous) ==
    IF handle.present THEN handle.endpoint ELSE previous

\* monitorLog, lines 512-515, the flag after the turn: waitFailureTracker starts by setting it
\* to the failure monitor's state of the endpoint; without an interface failed->set(true).
monitorLogFailed(t, handle, tracker, failedEndpoints) ==
    IF handle.present THEN <<t, tracker>> \in failedEndpoints ELSE TRUE

\* epochEnd at its first wait: no handle holds an interface, every lockTLog waits on Never()
\* and on its handle, every monitorLog has set its flag.
LockInit ==
    /\ \E n \in 1..MaxLockLogs :
        /\ logServers = HandlesOfUIDs([t \in 1..n |-> t])
        /\ tLogReply = [t \in 1..n |-> {}]
        /\ lockRequest = [t \in 1..n |-> lockTLogRequest(HandleOfUID(t), {})]
        /\ lockSent = [t \in 1..n |-> <<>>]
        /\ waitFailure = [t \in 1..n |-> monitorLogTracker(HandleOfUID(t), 0)]
        /\ logFailed = [t \in 1..n |-> monitorLogFailed(t, HandleOfUID(t), 0, {})]
        /\ tLogReplicationFactor = n
    /\ endpointFailed = {}
    /\ tLogWriteAntiQuorum = 0
    /\ epochEndVersion = {}
    /\ oldLogData = <<>>
    /\ PushIdle
    /\ PopIdle
    /\ peekCursor = {}
    /\ prevState = <<>>
    /\ last_end = {}
    /\ outLogSystem = {}
    /\ resumed = FALSE
    /\ published = <<>>
    /\ epochEndPc = "changes"
    /\ rejoins = "running"
    /\ OnErrorIdle
    /\ RejoinIdle
    /\ EpochIdle

LockUnchanged ==
    UNCHANGED <<tLogWriteAntiQuorum, tLogReplicationFactor, epochEndVersion, oldLogData,
                pushVars, popVars, peekCursor, prevState, last_end, outLogSystem, resumed,
                published, epochEndPc, rejoins, onErrorVars, rejoinVars, epochVars>>

\* trackRejoins sets the handle of TLog t to the interface at `endpoint` (lines 840-842).
\* lockTLog, if still running, wakes in `when (wait(tlog->onChange()))` and takes its next
\* turn; monitorLog wakes in `wait( logServer->onChange() )` and takes its next turn.
LockHandleChange(t, endpoint) ==
    /\ rejoins = "running"
    /\ TrackRejoinsSets(logServers[t], endpoint) = TRUE
    /\ LET handle == HandleOfInterface(logServers[t].id, endpoint)
           request == lockTLogRequest(handle, lockRequest[t])
           tracker == monitorLogTracker(handle, waitFailure[t])
       IN  /\ logServers' = [logServers EXCEPT ![t] = handle]
           /\ IF tLogReply[t] = {}
              THEN /\ request # lockRequest[t] => Len(lockSent[t]) < MaxLockRequests
                   /\ lockRequest' = [lockRequest EXCEPT ![t] = request]
                   /\ lockSent' = IF request # lockRequest[t]
                                  THEN [lockSent EXCEPT ![t] = Append(@, Get(request).to)]
                                  ELSE lockSent
              ELSE UNCHANGED <<lockRequest, lockSent>>
           /\ waitFailure' = [waitFailure EXCEPT ![t] = tracker]
           /\ logFailed' = [logFailed EXCEPT
                               ![t] = monitorLogFailed(t, handle, tracker, endpointFailed)]
    /\ UNCHANGED <<tLogReply, endpointFailed>>
    /\ LockUnchanged

\* The TLog answers the request lockTLog waits on: `return data` (line 866).
LockReply(t, data) ==
    /\ \E request \in lockRequest[t] : request.state = "waiting"
    /\ tLogReply' = [tLogReply EXCEPT ![t] = {data}]
    /\ lockRequest' = [lockRequest EXCEPT ![t] = {}]
    /\ UNCHANGED <<logServers, logFailed, lockSent, waitFailure, endpointFailed>>
    /\ LockUnchanged

\* The TLog drops the request lockTLog waits on: brokenPromiseToNever (line 865) makes the
\* future one that is never ready.
LockBrokenPromise(t) ==
    /\ \E request \in lockRequest[t] :
        /\ request.state = "waiting"
        /\ lockRequest' = [lockRequest EXCEPT ![t] = {[request EXCEPT !.state = "never"]}]
    /\ UNCHANGED <<logServers, tLogReply, logFailed, lockSent, waitFailure, endpointFailed>>
    /\ LockUnchanged

\* The failure monitor changes its state of the endpoint of TLog t; the waitFailureTracker
\* watching the endpoint, if one runs, sets the flag.
EndpointFailureChange(t, endpoint) ==
    /\ endpointFailed' = IF <<t, endpoint>> \in endpointFailed
                         THEN endpointFailed \ {<<t, endpoint>>}
                         ELSE endpointFailed \cup {<<t, endpoint>>}
    /\ logFailed' = IF waitFailure[t] = endpoint
                    THEN [logFailed EXCEPT ![t] = <<t, endpoint>> \in endpointFailed']
                    ELSE logFailed
    /\ UNCHANGED <<logServers, tLogReply, lockRequest, lockSent, waitFailure>>
    /\ LockUnchanged

LockNext ==
    \/ \E t \in DOMAIN logServers : \E endpoint \in RejoinEndpoints : LockHandleChange(t, endpoint)
    \/ \E t \in DOMAIN logServers : \E data \in LockReplies(t) : LockReply(t, data)
    \/ \E t \in DOMAIN logServers : LockBrokenPromise(t)
    \/ \E t \in DOMAIN logServers : \E endpoint \in RejoinEndpoints :
          EndpointFailureChange(t, endpoint)

SpecLock == LockInit /\ [][LockNext]_vars

\* C26 -- a lock request of a TLog is outstanding only against the interface its handle holds:
\* there is none while the handle is empty or once the result is there; a change of the handle
\* while the lock is pending makes lockTLog wait on a new request to the new interface only; a
\* broken promise leaves the task without a result until the handle changes; a result, once
\* obtained, is never replaced.
LockHandleChanged(t) == logServers'[t] # logServers[t]
LockRequestAtHandle(t) ==
    /\ ~logServers[t].present => lockRequest[t] = {}
    /\ tLogReply[t] # {} => lockRequest[t] = {}
    /\ \A request \in lockRequest[t] :
          /\ lockRequest[t] = {request}
          /\ request.to = logServers[t].endpoint
          /\ Len(lockSent[t]) > 0 /\ lockSent[t][Len(lockSent[t])] = request.to
LockRestartsOnChange(t) ==
    (LockHandleChanged(t) /\ tLogReply[t] = {}) =>
        /\ lockRequest'[t] = {[to |-> logServers'[t].endpoint, state |-> "waiting"]}
        /\ lockSent'[t] = Append(lockSent[t], logServers'[t].endpoint)
        /\ tLogReply'[t] = {}
LockBrokenPromiseWaits(t) ==
    ((\E request \in lockRequest[t] : request.state = "never") /\ ~LockHandleChanged(t)) =>
        /\ tLogReply'[t] = {}
        /\ lockRequest'[t] = lockRequest[t]
LockResultFinal(t) ==
    tLogReply[t] # {} => tLogReply'[t] = tLogReply[t] /\ lockRequest'[t] = {}
C26_LockRequestFollowsHandle ==
    /\ [](\A t \in DOMAIN logServers : LockRequestAtHandle(t))
    /\ [][\A t \in DOMAIN logServers :
             /\ LockRestartsOnChange(t)
             /\ LockBrokenPromiseWaits(t)
             /\ LockResultFinal(t)]_vars
\* A TLog whose first request, to endpoint 1, was broken and whose second, to endpoint 2, was
\* answered; the handle has since gone back to endpoint 1, which has failed.
C26_Witness ==
    \E t \in DOMAIN lockSent :
        /\ lockSent[t] = <<1, 2>>
        /\ tLogReply[t] # {}
        /\ logServers[t].endpoint = 1
        /\ logFailed[t]

\* C27 -- monitorLog keeps the failure flag of a TLog true while its handle is empty; the
\* tracker it runs watches the interface the handle holds now, so the flag changes only when
\* the handle changes or when the failure monitor's state of that interface changes, never on
\* a signal of a replaced interface; on a change of the handle the flag is set again from the
\* new interface.  A TLog that was marked failed is therefore responsive again, with the lock
\* result it gave before, once its new interface is alive.
MonitorCurrentEndpointFailed(t) == <<t, logServers[t].endpoint>> \in endpointFailed
MonitorEmptyIsFailed(t) ==
    IF logServers[t].present THEN waitFailure[t] = logServers[t].endpoint ELSE logFailed[t]
MonitorFollowsNewInterface(t) ==
    logFailed'[t] # logFailed[t] =>
        \/ LockHandleChanged(t)
        \/ /\ logServers[t].present
           /\ MonitorCurrentEndpointFailed(t)' # MonitorCurrentEndpointFailed(t)
           /\ logFailed'[t] = MonitorCurrentEndpointFailed(t)'
MonitorRestartSetsFlag(t) ==
    LockHandleChanged(t) => logFailed'[t] = MonitorCurrentEndpointFailed(t)'
C27_FailedFlagFollowsCurrentInterface ==
    /\ [](\A t \in DOMAIN logServers : MonitorEmptyIsFailed(t))
    /\ [][\A t \in DOMAIN logServers :
             MonitorFollowsNewInterface(t) /\ MonitorRestartSetsFlag(t)]_vars
\* A TLog locked at endpoint 1, which the failure monitor holds failed, counted responsive with
\* that lock result now that its handle holds endpoint 2.
C27_Witness ==
    \E t \in Responsive(tLogReply, logFailed) :
        /\ lockSent[t] = <<1>>
        /\ <<t, 1>> \in endpointFailed
        /\ logServers[t].endpoint = 2

\* ---------------------------------------------------------------- restarts of epochEnd
\* epochEnd over four TLogs, the smallest number with which the loop can publish while as
\* many TLogs are unresponsive as the replication factor exceeds the anti-quorum by.
RestartLockResults(t) ==
    {data \in LockResults(t) : data.knownCommittedVersion = 90 /\ data.end # 103}

RestartInit ==
    /\ \E localities \in LocalityChoices(MaxRestartLogs) :
         /\ validate(1..MaxRestartLogs, localities, MaxRestartLogs - 1)
         /\ prevState = [tLogs |-> [t \in 1..MaxRestartLogs |-> t], logSystemType |-> 2,
                         tLogReplicationFactor |-> MaxRestartLogs - 1,
                         tLogWriteAntiQuorum |-> 1, tLogPolicy |-> MaxRestartLogs - 1,
                         tLogLocalities |-> localities,
                         oldTLogData |-> <<InitialOldTLogData>>]
    /\ logServers = [t \in 1..MaxRestartLogs |-> [present |-> FALSE]]
    /\ tLogReply = [t \in 1..MaxRestartLogs |-> {}]
    /\ logFailed = [t \in 1..MaxRestartLogs |-> TRUE]
    /\ resumed = TRUE
    /\ epochEndPc = "changes"
    /\ rejoins = "running"
    /\ outLogSystem = {}
    /\ published = <<>>
    /\ last_end = {}
    /\ tLogWriteAntiQuorum = 0 /\ tLogReplicationFactor = 0
    /\ epochEndVersion = {} /\ oldLogData = <<>>
    /\ PushIdle /\ PopIdle /\ peekCursor = {}
    /\ AuxIdle

RestartNext ==
    \/ \E t \in DOMAIN logServers : TLogRejoin(t)
    \/ \E t \in DOMAIN logServers : \E data \in RestartLockResults(t) : TLogLocked(t, data)
    \/ \E t \in DOMAIN logServers : FailureChange(t)

SpecRestart == RestartInit /\ [][RestartNext]_vars

\* C28 -- every log system epochEnd publishes after an earlier one has an epochEndVersion
\* strictly below the one published before.
C28_PublishedEndsStrictlyDecrease ==
    \A i \in 1..(Len(published) - 1) : published[i + 1] < published[i]

\* C29 -- if every knownCommittedVersion a TLog reported in its lock reply was acknowledged by
\* a write quorum, that is at most tLogWriteAntiQuorum TLogs ended below it, then every log
\* system epochEnd publishes has knownCommittedVersion <= epochEndVersion, and the old epoch
\* newEpoch makes of it ends at knownCommittedVersion + 1 <= epochEndVersion + 1.
LockReplied(reply) == {t \in DOMAIN reply : reply[t] # {}}
EndedBelow(reply, version) == {t \in LockReplied(reply) : Get(reply[t]).end < version}
QuorumAcknowledged(reply) ==
    \A t \in LockReplied(reply) :
        Cardinality(EndedBelow(reply, Get(reply[t]).knownCommittedVersion))
            <= prevState.tLogWriteAntiQuorum
OldEpochEnd(system) ==
    LET old == NewEpochOldLogData(system, logServers)
    IN  IF Len(logServers) # 0 THEN {old[1].epochEnd} ELSE {}
C29_KnownCommittedNotAfterEpochEnd ==
    QuorumAcknowledged(tLogReply) =>
        \A system \in outLogSystem :
            /\ system.knownCommittedVersion <= system.epochEndVersion
            /\ \A epochEnd \in OldEpochEnd(system) :
                  /\ epochEnd = system.knownCommittedVersion + 1
                  /\ epochEnd <= system.epochEndVersion + 1
\* A published log system whose knownCommittedVersion is its epochEndVersion, reported by a
\* TLog, while a responsive TLog within the anti-quorum ended below it.
C29_Witness ==
    /\ QuorumAcknowledged(tLogReply)
    /\ \E system \in outLogSystem :
          /\ system.knownCommittedVersion = system.epochEndVersion
          /\ EndedBelow(tLogReply, system.knownCommittedVersion)
                \cap Responsive(tLogReply, logFailed) # {}
          /\ OldEpochEnd(system) = {system.epochEndVersion + 1}

\* ---------------------------------------------------------------- wake-ups of epochEnd
\* epochEnd at its first wait, over the epochs of up to MaxWakeUpLogs TLogs.
WakeUpInit ==
    /\ \E n \in 1..MaxWakeUpLogs : \E R \in 1..n : \E antiQuorum \in 0..(R - 1) :
       \E localities \in LocalityChoices(n) :
         /\ validate(1..n, localities, R)
         /\ prevState = [tLogs |-> [t \in 1..n |-> t], logSystemType |-> 2,
                         tLogReplicationFactor |-> R,
                         tLogWriteAntiQuorum |-> antiQuorum, tLogPolicy |-> R,
                         tLogLocalities |-> localities,
                         oldTLogData |-> <<InitialOldTLogData>>]
         /\ logServers = [t \in 1..n |-> [present |-> FALSE]]
         /\ tLogReply = [t \in 1..n |-> {}]
         /\ logFailed = [t \in 1..n |-> TRUE]
    /\ resumed = TRUE
    /\ epochEndPc = "changes"
    /\ rejoins = "running"
    /\ outLogSystem = {}
    /\ published = <<>>
    /\ last_end = {}
    /\ tLogWriteAntiQuorum = 0 /\ tLogReplicationFactor = 0
    /\ epochEndVersion = {} /\ oldLogData = <<>>
    /\ PushIdle /\ PopIdle /\ peekCursor = {}
    /\ AuxIdle

\* The loop of epochEnd continues inside the callback of the future that became ready, so its
\* iteration is part of the step of the event; the weak fairness is on the events.
SpecWakeUp == WakeUpInit /\ [][RestartNext]_vars /\ WF_vars(RestartNext)

\* C30 -- the loop of epochEnd loses no wake-up: a lock reply, and a change of the failure flag
\* or of the handle of a TLog that has answered the lock, each make the loop run again; so
\* whenever the responsive TLogs are not too many failures a log system has been published,
\* and if from some point on they are not, a log system is eventually published.
LockCompleted(t) == tLogReply[t] = {} /\ tLogReply'[t] # {}
LockedTLogChanged(t) ==
    /\ tLogReply[t] # {}
    /\ logFailed'[t] # logFailed[t] \/ logServers'[t] # logServers[t]
LoopWoken == \E t \in DOMAIN tLogReply : LockCompleted(t) \/ LockedTLogChanged(t)
NotTooManyFailures == Len(prevState.tLogs) > 0 /\ ~bTooManyFailures(tLogReply, logFailed)
C30_NoLostWakeUp ==
    /\ [][LoopWoken => resumed']_vars
    /\ [](NotTooManyFailures => published # <<>>)
    /\ (<>[]NotTooManyFailures) => <>(published # <<>>)
\* The first log system is published in the iteration a failure flag of a locked TLog starts:
\* every responsive TLog had answered the lock while the loop last ran with too many failures.
C30_Witness ==
    /\ resumed
    /\ Len(published) = 1
    /\ NotTooManyFailures
    /\ \A t \in DOMAIN tLogReply : tLogReply[t] # {}
    /\ \E t \in DOMAIN tLogReply : logFailed[t]

\* C31 -- when every TLog of the recovered epoch has answered the lock and none is marked
\* failed, the epochEndVersion of the log system published last lies between the
\* (tLogWriteAntiQuorum + 1)-th smallest and the tLogReplicationFactor-th smallest end of the
\* lock replies: the loop publishes again only when the latter is below the version published
\* before, so the version depends on the order in which the replies arrived.
AllLockedNoneFailed ==
    /\ Len(prevState.tLogs) > 0
    /\ \A t \in DOMAIN tLogReply : tLogReply[t] # {} /\ ~logFailed[t]
EndAtAntiQuorum == results(tLogReply, logFailed)[prevState.tLogWriteAntiQuorum + 1].end
EndAtReplicationFactor == results(tLogReply, logFailed)[prevState.tLogReplicationFactor].end
PublishedLast == {system.epochEndVersion : system \in outLogSystem}
PopHandleSet(log) ==
    /\ ~logServers[log].present
    /\ logServers' = [logServers EXCEPT ![log] = [present |-> TRUE]]
    /\ UNCHANGED <<tLogWriteAntiQuorum, tLogReplicationFactor, epochEndVersion, oldLogData,
                   pushVars, popVars, peekCursor, recVars, auxVars>>

\* popFromLog wakes from delay(1.0): one of its three continuations.
PopTaskWakes == PopTaskDrained \/ PopTaskNotPresent \/ PopTaskSend

PopDeliveryNext ==
    \/ PopCall
    \/ PopTaskDrained
    \/ PopTaskNotPresent
    \/ PopTaskSend
    \/ PopReply
    \/ \E log \in DOMAIN logServers : PopHandleSet(log)

\* No pop RPC fails and no actor is cancelled; every delay expires, every RPC is answered,
\* and every log rejoins.
SpecPopDelivery ==
    /\ PopInit
    /\ [][PopDeliveryNext]_vars
    /\ WF_vars(PopTaskWakes)
    /\ WF_vars(PopReply)
    /\ WF_vars(\E log \in DOMAIN logServers : PopHandleSet(log))

\* The log of key k has been sent a TLogPopRequest with upTo >= version.
PopReceived(k, version) ==
    IF k \in PopKeys THEN \E i \in DOMAIN popRpcs[k] : popRpcs[k][i].upTo >= version ELSE FALSE
\* pop() has been called for key k with version or more, and the key has not been erased.
PopRequested(k, version) == MapGet(outstandingPops, k) >= version

\* C32 -- for every log and tag, every pop(version, tag) with version > 0 leads to the log
\* being sent a TLogPopRequest for the tag with upTo >= version.
C32_EveryPopReachesLog ==
    \A log \in 1..MaxPopLogs : \A tag \in PopTags : \A version \in 1..MaxPopVersion :
        (log \in DOMAIN logServers /\ PopRequested(<<log, tag>>, version))
            ~> PopReceived(<<log, tag>>, version)

=============================================================================
